---------------------------- MODULE Spec2Model ----------------------------
(***************************************************************************)
(* GuardClaw privacy middleware (OpenBMB/EdgeClaw, extensions/guardclaw).  *)
(*                                                                         *)
(* The module models                                                       *)
(*   - the in-memory session privacy state (session-state.ts),             *)
(*   - the lifecycle hooks registered in hooks.ts,                         *)
(*   - the desensitization pipeline of local-model.ts and the rule-based   *)
(*     redactor of utils.ts on character sequences.                        *)
(*                                                                         *)
(* Three specifications share the variables:                               *)
(*   Spec         the hooks driven by the host runtime,                    *)
(*   SpecSession  the exported session-state operations called directly,   *)
(*   SpecDesens   desensitizeWithLocalModel and the S2 prompt assembly.    *)
(***************************************************************************)
EXTENDS Naturals, Sequences, FiniteSets

VARIABLES
    sessionStates,  \* session-state.ts: Map<string, SessionPrivacyState>
    preReadFiles,   \* per-session registry of pre-read file paths
    hFull,          \* full history track, one sequence of records per session key
    hClean,         \* clean history track, one sequence of records per session key
    config,         \* merged PrivacyConfig (immutable after load)
    call,           \* the hook / operation invocation that produced the current state
    nEvents,        \* number of invocations so far
    dz,             \* desensitization run: input, model outcome, result
    memory,         \* MemoryIsolationManager: content of MEMORY-FULL.md and MEMORY.md
    pending,        \* persistMessage calls started and not yet settled
    rd              \* rule detection run: context, sub-check levels, result

vars == <<sessionStates, preReadFiles, hFull, hClean, config, call, nEvents, dz,
          memory, pending, rd>>

-----------------------------------------------------------------------------
(* Bounds of the model *)

MaxEvents == 2

MaxOps == 4

-----------------------------------------------------------------------------
(* Sensitivity levels, S1 < S2 < S3 *)

Levels == {"S1", "S2", "S3"}

order(l) == CASE l = "S1" -> 1 [] l = "S2" -> 2 [] l = "S3" -> 3

Checkpoints == {"onUserMessage", "onToolCallProposed", "onToolCallExecuted"}

HistoryLimit == 50

-----------------------------------------------------------------------------
(* Session keys.  A key is the sequence of its ':'-separated segments:     *)
(* "s1:guard:t1" is <<"s1", "guard", "t1">>.                                *)

MainKeys == {<<"s1">>, <<"s2">>}

GuardKeys == {<<"s1", "guard", "t1">>}

EventKeys == MainKeys \cup GuardKeys

\* guard-agent.generateGuardSessionKey: `${parent}:guard:${timestamp}:${random}`,
\* the timestamp and the random suffix held as the one segment "t1"
generateGuardSessionKey(parentSessionKey) == parentSessionKey \o <<"guard", "t1">>

\* `${sessionKey}:guard`, the key resetSessionPrivacy deletes
guardSubsessionKey(sessionKey) == sessionKey \o <<"guard">>

Keys == EventKeys \cup {guardSubsessionKey(<<"s1">>)}

\* sessionKey.includes(":guard:") : a segment "guard" with a segment on each side
isGuardSessionKey(sessionKey) ==
    \E i \in 2..(Len(sessionKey) - 1) : sessionKey[i] = "guard"

-----------------------------------------------------------------------------
(* Session state (session-state.ts)                                        *)

\* sessionStates.get(key) === undefined
NoState ==
    [exists |-> FALSE, isPrivate |-> FALSE, highestLevel |-> "S1",
     detectionHistory |-> <<>>]

getHigherLevel_second(a, b) == b

getHigherLevel(a, b) == IF order(a) >= order(b) THEN a ELSE b

\* the session is left as it is
markSessionAsPrivate_noop(ss, sessionKey, level) == ss

\* the earlier revision of markSessionAsPrivate: private only on S3, overwritten
markSessionAsPrivate_S3only(ss, sessionKey, level) ==
    IF ss[sessionKey].exists
    THEN [ss EXCEPT ![sessionKey].isPrivate = (level = "S3"),
                    ![sessionKey].highestLevel =
                        getHigherLevel(ss[sessionKey].highestLevel, level)]
    ELSE [ss EXCEPT ![sessionKey] =
            [exists |-> TRUE, isPrivate |-> (level = "S3"),
             highestLevel |-> level, detectionHistory |-> <<>>]]

\* isPrivate assigned from the current level alone
markSessionAsPrivate_overwrite(ss, sessionKey, level) ==
    LET shouldBePrivate == level = "S2" \/ level = "S3" IN
    IF ss[sessionKey].exists
    THEN [ss EXCEPT ![sessionKey].isPrivate = shouldBePrivate,
                    ![sessionKey].highestLevel =
                        getHigherLevel(ss[sessionKey].highestLevel, level)]
    ELSE [ss EXCEPT ![sessionKey] =
            [exists |-> TRUE, isPrivate |-> shouldBePrivate,
             highestLevel |-> level, detectionHistory |-> <<>>]]

markSessionAsPrivate(ss, sessionKey, level) ==
    LET shouldBePrivate == level = "S2" \/ level = "S3" IN
    IF ss[sessionKey].exists
    THEN [ss EXCEPT ![sessionKey].isPrivate =
                        ss[sessionKey].isPrivate \/ shouldBePrivate,
                    ![sessionKey].highestLevel =
                        getHigherLevel(ss[sessionKey].highestLevel, level)]
    ELSE [ss EXCEPT ![sessionKey] =
            [exists |-> TRUE, isPrivate |-> shouldBePrivate,
             highestLevel |-> level, detectionHistory |-> <<>>]]

\* every session counts as private
isSessionMarkedPrivate_always(ss, sessionKey) == TRUE

isSessionMarkedPrivate(ss, sessionKey) ==
    IF ss[sessionKey].exists THEN ss[sessionKey].isPrivate ELSE FALSE

getSessionHighestLevel(ss, sessionKey) ==
    IF ss[sessionKey].exists THEN ss[sessionKey].highestLevel ELSE "S1"

\* Array.prototype.slice(-n)
sliceLast(s, n) == IF Len(s) > n THEN SubSeq(s, Len(s) - n + 1, Len(s)) ELSE s

\* slice(0, 50): the oldest entries are kept
recordDetection_keepsOldest(ss, sessionKey, level, checkpoint) ==
    IF ss[sessionKey].exists
    THEN LET pushed == Append(ss[sessionKey].detectionHistory,
                              [level |-> level, checkpoint |-> checkpoint])
         IN [ss EXCEPT ![sessionKey].detectionHistory =
                IF Len(pushed) > HistoryLimit
                THEN SubSeq(pushed, 1, HistoryLimit) ELSE pushed]
    ELSE ss

recordDetection(ss, sessionKey, level, checkpoint) ==
    IF ss[sessionKey].exists
    THEN LET pushed == Append(ss[sessionKey].detectionHistory,
                              [level |-> level, checkpoint |-> checkpoint])
         IN [ss EXCEPT ![sessionKey].detectionHistory =
                IF Len(pushed) > HistoryLimit
                THEN sliceLast(pushed, HistoryLimit) ELSE pushed]
    ELSE ss

clearSessionState(ss, sessionKey) == [ss EXCEPT ![sessionKey] = NoState]

resetSessionPrivacy(ss, sessionKey) ==
    IF ss[sessionKey].exists
    THEN LET cleared == [ss EXCEPT ![sessionKey].isPrivate = FALSE,
                                   ![sessionKey].highestLevel = "S1",
                                   ![sessionKey].detectionHistory = <<>>]
             sub == guardSubsessionKey(sessionKey)
         IN IF sub \in Keys THEN [cleared EXCEPT ![sub] = NoState] ELSE cleared
    ELSE ss


-----------------------------------------------------------------------------
(* Operations of session-state.ts called directly (SpecSession)            *)

SessionOpKeys == {<<"s1">>, guardSubsessionKey(<<"s1">>)}

NoParams == [present |-> FALSE, o |-> <<>>]

NoDecision ==
    [kind |-> "none", provider |-> FALSE, model |-> FALSE,
     directResponse |-> FALSE, userPromptOverride |-> FALSE,
     prompt |-> [text |-> <<>>, file |-> "none"],
     block |-> FALSE, blockReason |-> ""]

NoCall ==
    [hook |-> "none", key |-> <<>>, msg |-> <<>>, tool |-> "", params |-> NoParams,
     level |-> "none", ret |-> NoDecision, events |-> <<>>, fileRead |-> FALSE,
     localCallOk |-> TRUE, threw |-> FALSE, synced |-> FALSE]

NoDesens ==
    [mode |-> "none", message |-> <<>>, content |-> <<>>, entities |-> <<>>,
     outcome |-> "none", desensitized |-> <<>>, wasModelUsed |-> FALSE,
     userPromptOverride |-> <<>>]

\* neither memory file exists: readMemory returns "" for a missing file
NoMemory == [full |-> <<>>, clean |-> <<>>, cleanExists |-> FALSE]

NoPending == <<>>

NoRules == [mode |-> "none"]

DefaultConfig == [enabled |-> TRUE, localModelEnabled |-> FALSE]

EmptyTracks == [k \in Keys |-> <<>>]

InitSession ==
    /\ sessionStates = [k \in Keys |-> NoState]
    /\ preReadFiles = [k \in Keys |-> {}]
    /\ hFull = EmptyTracks
    /\ hClean = EmptyTracks
    /\ config = DefaultConfig
    /\ call = NoCall
    /\ nEvents = 0
    /\ dz = NoDesens
    /\ memory = NoMemory
    /\ pending = NoPending
    /\ rd = NoRules

OpStep(op, key, level, ss) ==
    /\ nEvents < MaxOps
    /\ nEvents' = nEvents + 1
    /\ sessionStates' = ss
    /\ call' = [NoCall EXCEPT !.hook = op, !.key = key, !.level = level]
    /\ UNCHANGED <<preReadFiles, hFull, hClean, config, dz, memory, pending, rd>>

\* markSessionAsPrivate, called with a session key or, by the resolve_model
\* handler of the guard redirect, with the guard session key generated for it
OpMarkSessionAsPrivate ==
    \E k \in SessionOpKeys \cup {generateGuardSessionKey(<<"s1">>)}, l \in Levels :
        OpStep("markSessionAsPrivate", k, l, markSessionAsPrivate(sessionStates, k, l))

OpRecordDetection ==
    \E k \in SessionOpKeys, l \in Levels, c \in Checkpoints :
        OpStep("recordDetection", k, l, recordDetection(sessionStates, k, l, c))

OpResetSessionPrivacy ==
    \E k \in SessionOpKeys :
        OpStep("resetSessionPrivacy", k, "none", resetSessionPrivacy(sessionStates, k))

OpClearSessionState ==
    \E k \in SessionOpKeys :
        OpStep("clearSessionState", k, "none", clearSessionState(sessionStates, k))

SpecSession ==
    InitSession /\ [][OpMarkSessionAsPrivate \/ OpRecordDetection
                      \/ OpResetSessionPrivacy \/ OpClearSessionState]_vars


\* recordDetection called repeatedly for a session that has state, from
\* histories of 0, HistoryLimit - 2 and HistoryLimit entries; rd.log is every
\* detection recorded so far, oldest first
InitRing ==
    /\ \E n \in {0, HistoryLimit - 2, HistoryLimit} :
        LET history == [i \in 1..n |->
                           [level |-> IF i % 2 = 0 THEN "S1" ELSE "S2",
                            checkpoint |-> "onUserMessage"]]
        IN /\ sessionStates =
                  [k \in Keys |->
                      IF k = <<"s1">>
                      THEN [exists |-> TRUE, isPrivate |-> TRUE,
                            highestLevel |-> "S2", detectionHistory |-> history]
                      ELSE NoState]
           /\ rd = [mode |-> "ring", log |-> history]
    /\ preReadFiles = [k \in Keys |-> {}]
    /\ hFull = EmptyTracks
    /\ hClean = EmptyTracks
    /\ config = DefaultConfig
    /\ call = NoCall
    /\ nEvents = 0
    /\ dz = NoDesens
    /\ memory = NoMemory
    /\ pending = NoPending

RecordDetectionLogged ==
    \E l \in Levels, c \in Checkpoints :
        /\ nEvents < MaxOps
        /\ nEvents' = nEvents + 1
        /\ sessionStates' = recordDetection(sessionStates, <<"s1">>, l, c)
        /\ rd' = [rd EXCEPT !.log = Append(@, [level |-> l, checkpoint |-> c])]
        /\ call' = [NoCall EXCEPT !.hook = "recordDetection", !.key = <<"s1">>,
                                  !.level = l]
        /\ UNCHANGED <<preReadFiles, hFull, hClean, config, dz, memory, pending>>

SpecRing == InitRing /\ [][RecordDetectionLogged]_vars

-----------------------------------------------------------------------------
(* Text.  A message is the sequence of its whitespace-separated tokens and *)
(* a token (a word or a path) is the sequence of its '/'-separated         *)
(* segments: "summarize invoices/Q3.csv" is                                *)
(* << <<"summarize">>, <<"invoices", "Q3.csv">> >>.                         *)

\* file extension of a last path segment, "" when it has none of the listed ones
extOf(seg) ==
    CASE seg = "Q3.csv" -> "csv"
      [] seg = "MEMORY-FULL.md" -> "md"
      [] seg = "MEMORY.md" -> "md"
      [] seg = "s1.jsonl" -> ""
      [] OTHER -> ""

\* /(?:[\w./-]+\/)?[\w\u4e00-\u9fff._-]+\.(?:xlsx|xls|csv|txt|docx|json|md)/
\* on one token
matchesFilePattern(token) ==
    /\ Len(token) >= 1
    /\ extOf(token[Len(token)]) \in {"xlsx", "xls", "csv", "txt", "docx", "json", "md"}

\* no message counts as already processed
includesRedactedMarker_never(msg) == FALSE

\* msgStr.includes("[REDACTED:")
includesRedactedMarker(msg) ==
    \E i \in 1..Len(msg) : msg[i] = <<"[REDACTED:PHONE]">>

\* msgStr.startsWith("[SYSTEM]")
startsWithSystemMarker(msg) == Len(msg) >= 1 /\ msg[1] = <<"[SYSTEM]">>

CsvPath == <<"invoices", "Q3.csv">>

Messages ==
    { << <<"hello">> >>,
      << <<"summarize">>, CsvPath >>,
      << <<"[REDACTED:PHONE]">>, <<"hello">> >>,
      << <<"hello">>, <<"[REDACTED:PHONE]">> >>,
      << <<"[SYSTEM]">>, <<"hello">> >> }

\* the tokens of the message that tryReadReferencedFile tries, in order
referencedPaths(msg) == SelectSeq(msg, matchesFilePattern)

\* message.replace(filePathPattern, "").replace(/\s{2,}/g, " ").trim()
stripFilePaths(msg) == SelectSeq(msg, LAMBDA t : ~matchesFilePattern(t))

-----------------------------------------------------------------------------
(* Paths and tool parameters                                               *)

BaseDir == <<"~", ".openclaw">>

WorkspaceDir == BaseDir \o <<"workspace">>

FullMemoryFile == WorkspaceDir \o <<"MEMORY-FULL.md">>

FullMemoryDir == WorkspaceDir \o <<"memory-full">>

CleanMemoryFile == WorkspaceDir \o <<"MEMORY.md">>

FullHistoryFile == BaseDir \o <<"agents", "main", "sessions", "full", "s1.jsonl">>

isPrefixOf(root, p) == Len(p) >= Len(root) /\ SubSeq(p, 1, Len(root)) = root

\* utils.isProtectedMemoryPath: the path lies under <baseDir>/agents/<agent>/sessions/full,
\* is the full memory file, or lies under the full memory directory
isProtectedMemoryPath(p, baseDir) ==
    \/ /\ isPrefixOf(baseDir \o <<"agents">>, p)
       /\ Len(p) >= Len(baseDir) + 4
       /\ SubSeq(p, Len(baseDir) + 3, Len(baseDir) + 4) = <<"sessions", "full">>
    \/ p = baseDir \o <<"workspace", "MEMORY-FULL.md">>
    \/ isPrefixOf(baseDir \o <<"workspace", "memory-full">>, p)

\* A parameter value: a string (t = "str", the path in s), a nested object
\* (t = "obj", its own key -> value mapping in o) or an array (t = "arr", its elements in a)
StrVal(p) == [t |-> "str", s |-> p, o |-> <<>>, a |-> <<>>]

ObjVal(obj) == [t |-> "obj", s |-> <<>>, o |-> obj, a |-> <<>>]

ArrVal(arr) == [t |-> "arr", s |-> <<>>, o |-> <<>>, a |-> arr]

\* An object with one property
Obj1(key, val) == [k \in {key} |-> val]

Params(obj) == [present |-> TRUE, o |-> obj]

ParamSamples ==
    { NoParams,
      Params(Obj1("path", StrVal(CsvPath))),
      Params(Obj1("path", StrVal(<<"", "etc", "shadow">>))),
      Params(Obj1("path", StrVal(FullHistoryFile))),
      Params(Obj1("file", StrVal(FullMemoryFile))),
      Params(Obj1("source", StrVal(FullMemoryDir))),
      Params(Obj1("path", StrVal(CleanMemoryFile))),
      Params(Obj1("options", ObjVal(Obj1("target", StrVal(FullMemoryFile))))),
      Params(Obj1("files", ArrVal(<<StrVal(FullMemoryFile)>>))),
      Params(Obj1("command", StrVal(FullMemoryFile))),
      Params(Obj1("path", StrVal(<<>>))) }

pathKeys ==
    {"path", "file", "filepath", "filename", "dir", "directory", "target", "source"}

\* hooks.ts extractPathValuesFromParams; the result is used for membership only,
\* so it is the set of the array's elements
RECURSIVE extractPathValuesFromParams(_)
extractPathValuesFromParams_flat(obj) ==
    { obj[k].s : k \in { k \in DOMAIN obj \cap pathKeys :
                           obj[k].t = "str" /\ obj[k].s # <<>> } }

extractPathValuesFromParams(obj) ==
    { obj[k].s : k \in { k \in DOMAIN obj \cap pathKeys :
                           obj[k].t = "str" /\ obj[k].s # <<>> } }
    \cup UNION { extractPathValuesFromParams(obj[k].o) :
                   k \in { k \in DOMAIN obj : obj[k].t = "obj" } }


-----------------------------------------------------------------------------
(* Pre-read registry (session-state.ts markPreReadFiles / isFilePreRead)   *)

normalizeRelative(p) == IF Len(p) >= 1 /\ p[1] = "." THEN Tail(p) ELSE p

\* adds every path-like token of the message with a listed extension
markPreReadFiles(pr, sessionKey, msg) ==
    [pr EXCEPT ![sessionKey] =
        @ \cup { msg[i] : i \in { j \in 1..Len(msg) : matchesFilePattern(msg[j]) } }]

isFilePreRead(pr, sessionKey, filePath) ==
    normalizeRelative(filePath) \in { normalizeRelative(q) : q \in pr[sessionKey] }

-----------------------------------------------------------------------------
(* Dual-track persistence (session-manager.ts persistMessage)              *)

Placeholder == << <<"[Private content]">> >>

\* timestamp: Date.now(), read as the number of invocations before this one
SessionMessage(role, content) ==
    [role |-> role, content |-> content, redacted |-> FALSE, timestamp |-> nEvents]

\* W(m, l): what the clean track receives for a record of tier l.  The Redactor
\* output De(m) is the record flagged redacted.
cleanProjection(rec, tier) ==
    CASE tier = "S1" -> rec
      [] tier = "S2" -> [rec EXCEPT !.redacted = TRUE]
      [] tier = "S3" -> [rec EXCEPT !.content = Placeholder]

\* The hooks call persistMessage(sessionKey, message, agentId): no tier is passed.
\* The persistence layer then has the record and the session state to go by: it
\* treats the record as S1 or falls back on the session's recorded highest level.
persistTiers(ss, sessionKey) == {"S1", getSessionHighestLevel(ss, sessionKey)}

persistFull(hf, sessionKey, rec) == [hf EXCEPT ![sessionKey] = Append(@, rec)]

persistClean(hc, sessionKey, rec, tier) ==
    [hc EXCEPT ![sessionKey] = Append(@, cleanProjection(rec, tier))]

-----------------------------------------------------------------------------
(* Hooks (hooks.ts registerHooks)                                          *)

ToolNames == {"read", "read_file", "cat", "exec"}

isReadTool_readOnly(toolName) == toolName = "read"

\* toolName === "read" || toolName === "read_file" || toolName === "cat"
isReadTool(toolName) == toolName \in {"read", "read_file", "cat"}

\* String(v) of a parameter value
stringOf(v) ==
    CASE v.t = "str" -> v.s
      [] v.t = "obj" -> <<"[object Object]">>
      [] v.t = "arr" -> IF Len(v.a) = 1 /\ v.a[1].t = "str" THEN v.a[1].s
                        ELSE <<"[array]">>

\* String(typedParams?.path ?? typedParams?.file ?? typedParams?.target ?? "")
readFilePath(params) ==
    IF ~params.present THEN <<>>
    ELSE IF "path" \in DOMAIN params.o THEN stringOf(params.o["path"])
    ELSE IF "file" \in DOMAIN params.o THEN stringOf(params.o["file"])
    ELSE IF "target" \in DOMAIN params.o THEN stringOf(params.o["target"])
    ELSE <<>>

PrivacyActivated(level, sessionKey, wasModelUsed) ==
    [type |-> "privacy_activated", level |-> level, sessionKey |-> sessionKey,
     wasModelUsed |-> wasModelUsed]

\* every block carries the reason of the file-access guard
BlockDecision_guardReason(reason) ==
    [NoDecision EXCEPT !.kind = "block", !.block = TRUE,
                       !.blockReason = "protected path"]

BlockDecision(reason) ==
    [NoDecision EXCEPT !.kind = "block", !.block = TRUE, !.blockReason = reason]

RedirectDecision ==
    [NoDecision EXCEPT !.kind = "redirect", !.provider = TRUE, !.model = TRUE,
                       !.directResponse = TRUE]

EnforceLocalDecision ==
    [NoDecision EXCEPT !.kind = "enforceLocal", !.provider = TRUE, !.model = TRUE]

OverrideDecision(text, file) ==
    [NoDecision EXCEPT !.kind = "override", !.userPromptOverride = TRUE,
                       !.prompt = [text |-> text, file |-> file]]

Init ==
    /\ sessionStates = [k \in Keys |-> NoState]
    /\ preReadFiles = [k \in Keys |-> {}]
    /\ hFull = EmptyTracks
    /\ hClean = EmptyTracks
    /\ config \in [enabled : BOOLEAN, localModelEnabled : BOOLEAN]
    /\ call = NoCall
    /\ nEvents = 0
    /\ dz = NoDesens
    /\ memory = NoMemory
    /\ pending = NoPending
    /\ rd = NoRules

\* `await detectSensitivityLevel(...)` resolved with a level: the statements
\* that follow it in the try block run
detectionResolved_always(level) == TRUE

\* the level is "failed" when the call rejected (the detector threw, the request
\* was aborted): control passes to the catch clause of the handler
detectionResolved(level) == level \in Levels

\* the catch clause that rethrows what it logged
handlerOutcome_rethrows(c) ==
    [rejected |-> c.threw, logged |-> c.threw, value |-> c.ret]

\* what the host gets from `async (event, ctx) => { try { ... } catch (err) {
\* api.logger.error(...) } }`: the promise resolves with the value the try block
\* returned, or with undefined once the catch clause has logged the error
handlerOutcome(c) ==
    [rejected |-> FALSE, logged |-> c.threw,
     value |-> IF c.threw THEN NoDecision ELSE c.ret]

\* Hook 1: message_received
MessageReceivedOn(key, msg, level, persistOk, tier, maxEvents) ==
    LET recorded == recordDetection(sessionStates, key, level, "onUserMessage")
            rec == SessionMessage("user", msg)
        IN
        /\ nEvents < maxEvents
        /\ nEvents' = nEvents + 1
        /\ IF ~detectionResolved(level)
           THEN /\ UNCHANGED <<hFull, hClean>>
                /\ sessionStates' = sessionStates
           ELSE IF persistOk
           THEN /\ hFull' = persistFull(hFull, key, rec)
                /\ hClean' = persistClean(hClean, key, rec, tier)
                /\ sessionStates' =
                     IF level \in {"S2", "S3"}
                     THEN markSessionAsPrivate(recorded, key, level)
                     ELSE recorded
           ELSE \* persistMessage rejects: the catch logs, the marking is skipped
                /\ UNCHANGED <<hFull, hClean>>
                /\ sessionStates' = recorded
        /\ call' = [NoCall EXCEPT !.hook = "message_received", !.key = key,
                                  !.msg = msg, !.level = level,
                                  !.threw = (level = "failed" \/ ~persistOk)]
        /\ UNCHANGED <<preReadFiles, config, dz, memory, pending, rd>>

MessageReceived ==
    \E key \in EventKeys, msg \in Messages, level \in Levels \cup {"failed"},
       persistOk \in BOOLEAN :
    \E tier \in persistTiers(sessionStates, key) :
        MessageReceivedOn(key, msg, level, persistOk, tier, MaxEvents)

\* Hook 2: before_tool_call
BeforeToolCall ==
    \E key \in EventKeys, toolName \in ToolNames, params \in ParamSamples :
        LET protectedHit ==
                /\ params.present
                /\ ~isGuardSessionKey(key)
                /\ \E p \in extractPathValuesFromParams(params.o) :
                       isProtectedMemoryPath(p, BaseDir)
            filePath == readFilePath(params)
            preReadHit ==
                /\ isReadTool(toolName)
                /\ filePath # <<>>
                /\ isFilePreRead(preReadFiles, key, filePath)
            c0 == [NoCall EXCEPT !.hook = "before_tool_call", !.key = key,
                                 !.tool = toolName, !.params = params]
        IN
        /\ nEvents < MaxEvents
        /\ nEvents' = nEvents + 1
        /\ IF protectedHit
           THEN /\ call' = [c0 EXCEPT !.ret = BlockDecision("protected path")]
                /\ UNCHANGED sessionStates
           ELSE IF preReadHit
           THEN /\ call' = [c0 EXCEPT !.ret = BlockDecision("pre-read file")]
                /\ UNCHANGED sessionStates
           ELSE \E level \in Levels \cup {"failed"} :
                LET recorded ==
                        recordDetection(sessionStates, key, level, "onToolCallProposed")
                IN
                /\ call' = [c0 EXCEPT !.level = level,
                                      !.threw = (level = "failed"),
                                      !.ret = IF level = "S3"
                                              THEN BlockDecision("S3 sensitivity detected")
                                              ELSE NoDecision]
                /\ sessionStates' =
                     IF ~detectionResolved(level)
                     THEN sessionStates
                     ELSE IF level \in {"S2", "S3"}
                     THEN markSessionAsPrivate(recorded, key, level)
                     ELSE recorded
        /\ UNCHANGED <<preReadFiles, hFull, hClean, config, dz, memory, pending, rd>>

\* Hook 3: after_tool_call
AfterToolCall ==
    \E key \in EventKeys, toolName \in ToolNames, level \in Levels \cup {"failed"} :
        LET recorded == recordDetection(sessionStates, key, level, "onToolCallExecuted")
        IN
        /\ nEvents < MaxEvents
        /\ nEvents' = nEvents + 1
        /\ sessionStates' =
             IF ~detectionResolved(level)
             THEN sessionStates
             ELSE IF level \in {"S2", "S3"}
             THEN markSessionAsPrivate(recorded, key, level)
             ELSE recorded
        /\ call' = [NoCall EXCEPT !.hook = "after_tool_call", !.key = key,
                                  !.tool = toolName, !.level = level,
                                  !.threw = (level = "failed")]
        /\ UNCHANGED <<preReadFiles, hFull, hClean, config, dz, memory, pending, rd>>


\* Hook 6: resolve_model
ResolveModel ==
    \E key \in EventKeys, msg \in Messages :
        LET c0 == [NoCall EXCEPT !.hook = "resolve_model", !.key = key, !.msg = msg]
        IN
        /\ nEvents < MaxEvents
        /\ nEvents' = nEvents + 1
        /\ UNCHANGED <<config, dz, memory, pending, rd>>
        /\ IF ~config.enabled
           THEN /\ call' = c0
                /\ UNCHANGED <<sessionStates, preReadFiles, hFull, hClean>>
           ELSE IF isGuardSessionKey(key)
           THEN \* a guard session must use the local model
                /\ \E providerIsLocal \in BOOLEAN :
                     call' = [c0 EXCEPT !.ret = IF providerIsLocal THEN NoDecision
                                                ELSE EnforceLocalDecision]
                /\ UNCHANGED <<sessionStates, preReadFiles, hFull, hClean>>
           ELSE IF includesRedactedMarker(msg) \/ startsWithSystemMarker(msg)
           THEN \* already processed or internal prompt
                /\ call' = c0
                /\ UNCHANGED <<sessionStates, preReadFiles, hFull, hClean>>
           ELSE
             \E level \in Levels \cup {"failed"} :
             \E readable \in (IF referencedPaths(msg) # <<>> THEN BOOLEAN ELSE {FALSE}) :
               LET \* tryReadReferencedFile: the first referenced file that can be read
                   fileRead == referencedPaths(msg) # <<>> /\ readable
                   recorded == recordDetection(sessionStates, key, level, "onUserMessage")
                   marked == markSessionAsPrivate(recorded, key, level)
                   c1 == [c0 EXCEPT !.level = level, !.fileRead = fileRead]
               IN
               IF ~detectionResolved(level)
               THEN \* the outer catch logs
                    /\ call' = [c1 EXCEPT !.threw = TRUE]
                    /\ UNCHANGED <<sessionStates, preReadFiles, hFull, hClean>>
               ELSE IF level = "S3"
               THEN \* call the local model directly; on failure fall through
                    /\ sessionStates' = marked
                    /\ \E localCallOk \in BOOLEAN :
                         call' = [c1 EXCEPT
                                    !.events = <<PrivacyActivated("S3", key, FALSE)>>,
                                    !.localCallOk = localCallOk,
                                    !.ret = IF localCallOk THEN RedirectDecision
                                            ELSE NoDecision]
                    /\ UNCHANGED <<preReadFiles, hFull, hClean>>
               ELSE IF level = "S2"
               THEN \* desensitize, persist the original, forward the override
                    /\ sessionStates' = marked
                    /\ preReadFiles' = IF fileRead
                                       THEN markPreReadFiles(preReadFiles, key, msg)
                                       ELSE preReadFiles
                    /\ \/ \E tier \in persistTiers(marked, key) :
                          \E modelOk \in (IF config.localModelEnabled THEN BOOLEAN
                                          ELSE {FALSE}) :
                            /\ hFull' = persistFull(hFull, key, SessionMessage("user", msg))
                            /\ hClean' = persistClean(hClean, key,
                                                      SessionMessage("user", msg), tier)
                            /\ call' = [c1 EXCEPT
                                          !.events =
                                              <<PrivacyActivated("S2", key, modelOk)>>,
                                          !.ret =
                                              IF fileRead
                                              THEN OverrideDecision(stripFilePaths(msg),
                                                                    "desensitized")
                                              ELSE OverrideDecision(msg, "none")]
                       \/ \* persistMessage rejects: the outer catch logs
                          /\ UNCHANGED <<hFull, hClean>>
                          /\ call' = [c1 EXCEPT !.threw = TRUE]
               ELSE \* S1: no intervention
                    /\ sessionStates' = recorded
                    /\ call' = c1
                    /\ UNCHANGED <<preReadFiles, hFull, hClean>>

Next ==
    \/ MessageReceived
    \/ BeforeToolCall
    \/ AfterToolCall
    \/ ResolveModel

Spec == Init /\ [][Next]_vars

-----------------------------------------------------------------------------
(* Desensitization at the level of characters (SpecDesens).  A string is   *)
(* the sequence of its characters.                                         *)

UpperLetters ==
    <<"A", "B", "C", "D", "E", "F", "G", "H", "I", "J", "K", "L", "M",
      "N", "O", "P", "Q", "R", "S", "T", "U", "V", "W", "X", "Y", "Z">>

LowerLetters ==
    <<"a", "b", "c", "d", "e", "f", "g", "h", "i", "j", "k", "l", "m",
      "n", "o", "p", "q", "r", "s", "t", "u", "v", "w", "x", "y", "z">>

Digits == {"0", "1", "2", "3", "4", "5", "6", "7", "8", "9"}

\* [a-zA-Z0-9]
AlnumChars ==
    { UpperLetters[i] : i \in DOMAIN UpperLetters }
        \cup { LowerLetters[i] : i \in DOMAIN LowerLetters } \cup Digits

\* \s
SpaceChars == {" ", "\t", "\n"}

\* [:\s=]
SeparatorChars == SpaceChars \cup {":", "="}

toUpperCase(s) ==
    [i \in 1..Len(s) |->
        IF \E k \in DOMAIN LowerLetters : LowerLetters[k] = s[i]
        THEN UpperLetters[CHOOSE k \in DOMAIN LowerLetters : LowerLetters[k] = s[i]]
        ELSE s[i]]

toLowerCase(s) ==
    [i \in 1..Len(s) |->
        IF \E k \in DOMAIN UpperLetters : UpperLetters[k] = s[i]
        THEN LowerLetters[CHOOSE k \in DOMAIN UpperLetters : UpperLetters[k] = s[i]]
        ELSE s[i]]

\* s.startsWith(w, i - 1), positions from 1
startsWithAt(s, i, w) == i + Len(w) - 1 <= Len(s) /\ SubSeq(s, i, i + Len(w) - 1) = w

\* s.includes(v)
includes(s, v) == \E i \in 1..(Len(s) + 1) : startsWithAt(s, i, v)

\* the length of the longest run of characters of class cls (of its complement
\* when neg) that starts at position i
runLength(s, i, cls, neg) ==
    CHOOSE n \in 0..(Len(s) + 1 - i) :
        /\ \A j \in i..(i + n - 1) : (s[j] \in cls) # neg
        /\ (i + n <= Len(s)) => ((s[i + n] \in cls) = neg)

\* local-model.ts replaceAll: every match of the literal search string, leftmost
\* first and not overlapping, gives way to the replacement
RECURSIVE replaceFrom(_, _, _, _)
replaceFrom(str, i, search, replacement) ==
    IF i > Len(str) THEN <<>>
    ELSE IF startsWithAt(str, i, search)
    THEN replacement \o replaceFrom(str, i + Len(search), search, replacement)
    ELSE <<str[i]>> \o replaceFrom(str, i + 1, search, replacement)

replaceAll(str, search, replacement) == replaceFrom(str, 1, search, replacement)

\* type.toUpperCase().replace(/\s+/g, "_")
RECURSIVE underscoreSpaces(_, _)
underscoreSpaces(s, i) ==
    IF i > Len(s) THEN <<>>
    ELSE IF s[i] \in SpaceChars
    THEN <<"_">> \o underscoreSpaces(s, i + runLength(s, i, SpaceChars, FALSE))
    ELSE <<s[i]>> \o underscoreSpaces(s, i + 1)

\* the mapping table of mapPiiTypeToTag: normalised type -> tag category
piiTagMapping ==
    { <<<<"A", "D", "D", "R", "E", "S", "S">>,
        <<"A", "D", "D", "R", "E", "S", "S">>>>,
      <<<<"A", "C", "C", "E", "S", "S", "_", "C", "O", "D", "E">>,
        <<"A", "C", "C", "E", "S", "S", "_", "C", "O", "D", "E">>>>,
      <<<<"D", "E", "L", "I", "V", "E", "R", "Y">>,
        <<"D", "E", "L", "I", "V", "E", "R", "Y">>>>,
      <<<<"C", "O", "U", "R", "I", "E", "R", "_", "N", "U", "M", "B", "E", "R">>,
        <<"D", "E", "L", "I", "V", "E", "R", "Y">>>>,
      <<<<"C", "O", "U", "R", "I", "E", "R", "_", "N", "O">>,
        <<"D", "E", "L", "I", "V", "E", "R", "Y">>>>,
      <<<<"C", "O", "U", "R", "I", "E", "R", "_", "C", "O", "D", "E">>,
        <<"D", "E", "L", "I", "V", "E", "R", "Y">>>>,
      <<<<"T", "R", "A", "C", "K", "I", "N", "G", "_", "N", "U", "M", "B", "E", "R">>,
        <<"D", "E", "L", "I", "V", "E", "R", "Y">>>>,
      <<<<"N", "A", "M", "E">>,
        <<"N", "A", "M", "E">>>>,
      <<<<"S", "E", "N", "D", "E", "R", "_", "N", "A", "M", "E">>,
        <<"N", "A", "M", "E">>>>,
      <<<<"R", "E", "C", "I", "P", "I", "E", "N", "T", "_", "N", "A", "M", "E">>,
        <<"N", "A", "M", "E">>>>,
      <<<<"P", "H", "O", "N", "E">>,
        <<"P", "H", "O", "N", "E">>>>,
      <<<<"S", "E", "N", "D", "E", "R", "_", "P", "H", "O", "N", "E">>,
        <<"P", "H", "O", "N", "E">>>>,
      <<<<"F", "A", "C", "I", "L", "I", "T", "Y", "_", "P", "H", "O", "N", "E">>,
        <<"P", "H", "O", "N", "E">>>>,
      <<<<"L", "A", "N", "D", "L", "I", "N", "E">>,
        <<"P", "H", "O", "N", "E">>>>,
      <<<<"M", "O", "B", "I", "L", "E">>,
        <<"P", "H", "O", "N", "E">>>>,
      <<<<"E", "M", "A", "I", "L">>,
        <<"E", "M", "A", "I", "L">>>>,
      <<<<"I", "D">>,
        <<"I", "D">>>>,
      <<<<"I", "D", "_", "C", "A", "R", "D">>,
        <<"I", "D">>>>,
      <<<<"I", "D", "_", "N", "U", "M", "B", "E", "R">>,
        <<"I", "D">>>>,
      <<<<"C", "A", "R", "D">>,
        <<"C", "A", "R", "D">>>>,
      <<<<"B", "A", "N", "K", "_", "C", "A", "R", "D">>,
        <<"C", "A", "R", "D">>>>,
      <<<<"C", "A", "R", "D", "_", "N", "U", "M", "B", "E", "R">>,
        <<"C", "A", "R", "D">>>>,
      <<<<"S", "E", "C", "R", "E", "T">>,
        <<"S", "E", "C", "R", "E", "T">>>>,
      <<<<"P", "A", "S", "S", "W", "O", "R", "D">>,
        <<"S", "E", "C", "R", "E", "T">>>>,
      <<<<"A", "P", "I", "_", "K", "E", "Y">>,
        <<"S", "E", "C", "R", "E", "T">>>>,
      <<<<"T", "O", "K", "E", "N">>,
        <<"S", "E", "C", "R", "E", "T">>>>,
      <<<<"I", "P">>,
        <<"I", "P">>>>,
      <<<<"L", "I", "C", "E", "N", "S", "E", "_", "P", "L", "A", "T", "E">>,
        <<"L", "I", "C", "E", "N", "S", "E">>>>,
      <<<<"P", "L", "A", "T", "E">>,
        <<"L", "I", "C", "E", "N", "S", "E">>>>,
      <<<<"T", "I", "M", "E">>,
        <<"T", "I", "M", "E">>>>,
      <<<<"D", "A", "T", "E">>,
        <<"D", "A", "T", "E">>>>,
      <<<<"S", "A", "L", "A", "R", "Y">>,
        <<"S", "A", "L", "A", "R", "Y">>>>,
      <<<<"A", "M", "O", "U", "N", "T">>,
        <<"A", "M", "O", "U", "N", "T">>>> }

RedactedPrefix == <<"[", "R", "E", "D", "A", "C", "T", "E", "D", ":">>

mapPiiTypeToTag(type) ==
    LET t == underscoreSpaces(toUpperCase(type), 1)
        known == { e \in piiTagMapping : e[1] = t }
    IN IF known # {}
       THEN RedactedPrefix \o (CHOOSE e \in known : TRUE)[2] \o <<"]">>
       ELSE RedactedPrefix \o t \o <<"]">>

\* [...piiItems].sort((a, b) => b.value.length - a.value.length): a stable sort,
\* longest value first
RECURSIVE insertByValueLength(_, _)
insertByValueLength(sorted, item) ==
    IF sorted = <<>> THEN <<item>>
    ELSE IF Len(Head(sorted).value) >= Len(item.value)
    THEN <<Head(sorted)>> \o insertByValueLength(Tail(sorted), item)
    ELSE <<item>> \o sorted

RECURSIVE sortByValueLength(_)
sortByValueLength(items) ==
    IF items = <<>> THEN <<>>
    ELSE insertByValueLength(sortByValueLength(SubSeq(items, 1, Len(items) - 1)),
                             items[Len(items)])

\* the replacement loop of desensitizeWithLocalModel
RECURSIVE redactItems(_, _)
redactItems(redacted, sorted) ==
    IF sorted = <<>> THEN redacted
    ELSE IF Len(Head(sorted).value) < 2
    THEN redactItems(redacted, Tail(sorted))
    ELSE redactItems(replaceAll(redacted, Head(sorted).value,
                                mapPiiTypeToTag(Head(sorted).type)),
                     Tail(sorted))

\* The outcome of extractPiiWithModel is an input: "disabled" when the local
\* model is switched off, "failed" when the call throws, "extracted" with the
\* items the model returned.
desensitizeWithLocalModel(content, outcome, piiItems) ==
    IF outcome = "disabled"
    THEN [desensitized |-> content, wasModelUsed |-> FALSE]
    ELSE IF outcome = "failed"
    THEN [desensitized |-> content, wasModelUsed |-> FALSE]
    ELSE IF piiItems = <<>>
    THEN [desensitized |-> content, wasModelUsed |-> TRUE]
    ELSE [desensitized |-> redactItems(content, sortByValueLength(piiItems)),
          wasModelUsed |-> TRUE]


\* utils.ts redactSensitiveInfo.  matchLength gives the length of the match of a
\* pattern that starts at position i, 0 when there is none.
ApiKeyMinLength == 32

TokenMinLength == 20

\* /sk-[a-zA-Z0-9]{32,}/
matchApiKey(s, i) ==
    IF startsWithAt(s, i, <<"s", "k", "-">>)
    THEN LET n == runLength(s, i + 3, AlnumChars, FALSE)
         IN IF n >= ApiKeyMinLength THEN 3 + n ELSE 0
    ELSE 0

\* /token[:\s=]+[a-zA-Z0-9_-]{20,}/i
matchToken(s, i) ==
    IF startsWithAt(toLowerCase(s), i, <<"t", "o", "k", "e", "n">>)
    THEN LET sep == runLength(s, i + 5, SeparatorChars, FALSE)
             n == IF sep >= 1 THEN runLength(s, i + 5 + sep, AlnumChars \cup {"_", "-"}, FALSE) ELSE 0
         IN IF n >= TokenMinLength THEN 5 + sep + n ELSE 0
    ELSE 0

\* /password[:\s=]+\S+/i : the separators are matched greedily and given back
\* one by one until a non-space character follows
matchPassword(s, i) ==
    IF startsWithAt(toLowerCase(s), i, <<"p", "a", "s", "s", "w", "o", "r", "d">>)
    THEN LET sep == runLength(s, i + 8, SeparatorChars, FALSE)
             ks == { k \in 1..sep : runLength(s, i + 8 + k, SpaceChars, TRUE) >= 1 }
         IN IF ks = {} THEN 0
            ELSE LET k == CHOOSE x \in ks : \A y \in ks : y <= x
                 IN 8 + k + runLength(s, i + 8 + k, SpaceChars, TRUE)
    ELSE 0

matchLength(pattern, s, i) ==
    CASE pattern = "apiKey" -> matchApiKey(s, i)
      [] pattern = "token" -> matchToken(s, i)
      [] pattern = "password" -> matchPassword(s, i)

\* text.replace(/pattern/g, replacement)
RECURSIVE replacePattern(_, _, _, _)
replacePattern(s, i, pattern, replacement) ==
    IF i > Len(s) THEN <<>>
    ELSE LET n == matchLength(pattern, s, i)
         IN IF n > 0
            THEN replacement \o replacePattern(s, i + n, pattern, replacement)
            ELSE <<s[i]>> \o replacePattern(s, i + 1, pattern, replacement)

redactSensitiveInfo(text) ==
    LET keys == replacePattern(text, 1, "apiKey", <<"s", "k", "-", "*", "*", "*">>)
        tokens == replacePattern(keys, 1, "token",
                                 <<"t", "o", "k", "e", "n", "=", "*", "*", "*">>)
    IN replacePattern(tokens, 1, "password",
                      <<"p", "a", "s", "s", "w", "o", "r", "d", "=", "*", "*", "*">>)

\* A message of the file case is the sequence of its whitespace-separated tokens,
\* each a word or a file path the pattern matches whole.
Word(text) == [isPath |-> FALSE, text |-> text]

PathToken(text) == [isPath |-> TRUE, text |-> text]

RECURSIVE joinWithSpaces(_)
joinWithSpaces(tokens) ==
    IF tokens = <<>> THEN <<>>
    ELSE IF Len(tokens) = 1 THEN tokens[1].text
    ELSE tokens[1].text \o <<" ">> \o joinWithSpaces(Tail(tokens))

\* message.replace(filePathPattern, "").replace(/\s{2,}/g, " ").trim()
taskDescription(message) ==
    joinWithSpaces(SelectSeq(message, LAMBDA t : ~t.isPath))

\* langInstruction of a message without Chinese characters
\* desensitizedPrompt of the file case
filePrompt(message, desensitizedFile) ==
    LET \* "\n\n--- FILE CONTENT ---\n"
        header ==
            <<"\n", "\n", "-", "-", "-", " ", "F", "I", "L", "E", " ", "C", "O", "N", "T", "E",
              "N", "T", " ", "-", "-", "-", "\n">>
        \* "\n--- END FILE CONTENT ---\n\n"
        footer ==
            <<"\n", "-", "-", "-", " ", "E", "N", "D", " ", "F", "I", "L", "E", " ", "C", "O",
              "N", "T", "E", "N", "T", " ", "-", "-", "-", "\n", "\n">>
        \* the instruction for a message without Chinese characters
        langInstruction ==
        <<"C", "o", "m", "p", "l", "e", "t", "e", " ", "t", "h", "e", " ", "t", "a", "s",
              "k", " ", "b", "a", "s", "e", "d", " ", "O", "N", "L", "Y", " ", "o", "n", " ",
              "t", "h", "e", " ", "d", "e", "s", "e", "n", "s", "i", "t", "i", "z", "e", "d",
              " ", "c", "o", "n", "t", "e", "n", "t", " ", "a", "b", "o", "v", "e", ".", " ",
              "D", "o", " ", "N", "O", "T", " ", "r", "e", "a", "d", " ", "a", "n", "y", " ",
              "f", "i", "l", "e", "s", " ", "-", "-", " ", "t", "h", "e", " ", "c", "o", "n",
              "t", "e", "n", "t", " ", "i", "s", " ", "a", "l", "r", "e", "a", "d", "y", " ",
              "p", "r", "o", "v", "i", "d", "e", "d", ".", "\n", "*", "*", "I", "M", "P", "O",
              "R", "T", "A", "N", "T", ":", " ", "Y", "o", "u", "r", " ", "r", "e", "p", "l",
              "y", " ", "m", "u", "s", "t", " ", "N", "O", "T", " ", "c", "o", "n", "t", "a",
              "i", "n", " ", "a", "n", "y", " ", "[", "R", "E", "D", "A", "C", "T", "E", "D",
              ":", "x", "x", "x", "]", " ", "t", "a", "g", "s", ".", " ", "S", "i", "m", "p",
              "l", "y", " ", "o", "m", "i", "t", " ", "p", "r", "i", "v", "a", "t", "e", " ",
              "d", "e", "t", "a", "i", "l", "s", " ", "o", "r", " ", "d", "e", "s", "c", "r",
              "i", "b", "e", " ", "t", "h", "e", "m", " ", "i", "n", " ", "n", "a", "t", "u",
              "r", "a", "l", " ", "l", "a", "n", "g", "u", "a", "g", "e", " ", "(", "e", ".",
              "g", ".", " ", "\"", "y", "o", "u", "r", " ", "a", "d", "d", "r", "e", "s", "s",
              "\"", ",", " ", "\"", "y", "o", "u", "r", " ", "p", "h", "o", "n", "e", " ", "n",
              "u", "m", "b", "e", "r", "\"", ",", " ", "\"", "t", "h", "e", " ", "r", "e", "c",
              "i", "p", "i", "e", "n", "t", "\"", ",", " ", "e", "t", "c", ".", ")", ".", " ",
              "R", "e", "p", "l", "y", " ", "i", "n", " ", "t", "h", "e", " ", "s", "a", "m",
              "e", " ", "l", "a", "n", "g", "u", "a", "g", "e", " ", "t", "h", "e", " ", "u",
              "s", "e", "r", " ", "u", "s", "e", "d", ".", "*", "*">>
    IN taskDescription(message) \o header \o desensitizedFile \o footer
           \o langInstruction

MaxEntities == 2

\* "password=ab"
ContentPassword == <<"p", "a", "s", "s", "w", "o", "r", "d", "=", "a", "b">>

Contents ==
    { <<"m", "a", "i", "l", " ", "J", "o", "a", "n", ",", " ", "J", "o">>,
      <<"J", "o", " ", "a", "t", " ", "a", "p", "t", " ", "7">>,
      <<"h", "e", "l", "l", "o">>,
      <<"s", "k", "-", "a", "1", "B", "2", "a", "1", "B", "2", "a", "1", "B", "2",
        "a", "1", "B", "2", "a", "1", "B", "2", "a", "1", "B", "2", "a", "1", "B",
        "2", "a", "1", "B", "2">>,
      <<"T", "o", "k", "e", "n", ":", " ", "a", "b", "c", "d", "e", "f", "g", "h",
        "i", "j", "-", "1", "2", "3", "4", "5", "6", "7", "8", "9", "_">>,
      <<"m", "a", "i", "l", " ", "E", "D", ",", " ", "J", "o", "a", "n">>,
      ContentPassword }

PiiItem(type, value) == [type |-> type, value |-> value]

\* what the local model may return for these contents
PiiLists ==
    LET pool ==
    { PiiItem(<<"N", "A", "M", "E">>, <<"J", "o">>),
          PiiItem(<<"n", "a", "m", "e">>, <<"J", "o", "a", "n">>),
          PiiItem(<<"A", "D", "D", "R", "E", "S", "S">>, <<"7">>),
          PiiItem(<<"P", "A", "S", "S", "W", "O", "R", "D">>, <<"a", "b">>),
          PiiItem(<<"N", "A", "M", "E">>, <<"E", "D">>) }
    IN UNION { [1..n -> pool] : n \in 0..MaxEntities }

\* "sum invoices/Q3.csv" and "sum invoices/Q3.csv for Jo"
FileMessages ==
    { <<Word(<<"s", "u", "m">>), PathToken(<<"i", "n", "v", "o", "i", "c", "e", "s", "/", "Q", "3", ".", "c", "s", "v">>)>>,
      <<Word(<<"s", "u", "m">>), PathToken(<<"i", "n", "v", "o", "i", "c", "e", "s", "/", "Q", "3", ".", "c", "s", "v">>),
        Word(<<"f", "o", "r">>), Word(<<"J", "o">>)>> }

extractionOutcome(cfg, failed) ==
    IF ~cfg.localModelEnabled THEN "disabled"
    ELSE IF failed THEN "failed"
    ELSE "extracted"

InitDesens ==
    /\ sessionStates = [k \in Keys |-> NoState]
    /\ preReadFiles = [k \in Keys |-> {}]
    /\ hFull = EmptyTracks
    /\ hClean = EmptyTracks
    /\ config \in [enabled : {TRUE}, localModelEnabled : BOOLEAN]
    /\ call = NoCall
    /\ nEvents = 0
    /\ dz = NoDesens
    /\ memory = NoMemory
    /\ pending = NoPending
    /\ rd = NoRules

\* Each behaviour of SpecDesens is one invocation on inputs drawn from the sets
\* above.
\* resolve_model, S2 branch, inline case: the message itself is desensitized
DesensitizeInline ==
    \E message \in Contents, failed \in BOOLEAN, piiItems \in PiiLists :
        LET outcome == extractionOutcome(config, failed)
            r == desensitizeWithLocalModel(message, outcome, piiItems)
        IN
        /\ dz.mode = "none"
        /\ dz' = [mode |-> "inline", message |-> <<>>, content |-> message,
                  entities |-> IF outcome = "extracted" THEN piiItems ELSE <<>>,
                  outcome |-> outcome, desensitized |-> r.desensitized,
                  wasModelUsed |-> r.wasModelUsed,
                  userPromptOverride |-> r.desensitized]
        /\ UNCHANGED <<sessionStates, preReadFiles, hFull, hClean, config, call, nEvents,
                     memory, pending, rd>>

\* resolve_model, S2 branch, file case: the content of the pre-read file is
\* desensitized and set between the task description and the instruction
DesensitizeFile ==
    \E message \in FileMessages, fileContent \in Contents, failed \in BOOLEAN,
       piiItems \in PiiLists :
        LET outcome == extractionOutcome(config, failed)
            r == desensitizeWithLocalModel(fileContent, outcome, piiItems)
        IN
        /\ dz.mode = "none"
        /\ dz' = [mode |-> "file", message |-> message, content |-> fileContent,
                  entities |-> IF outcome = "extracted" THEN piiItems ELSE <<>>,
                  outcome |-> outcome, desensitized |-> r.desensitized,
                  wasModelUsed |-> r.wasModelUsed,
                  userPromptOverride |-> filePrompt(message, r.desensitized)]
        /\ UNCHANGED <<sessionStates, preReadFiles, hFull, hClean, config, call, nEvents,
                     memory, pending, rd>>

SpecDesens ==
    InitDesens /\ [][DesensitizeInline \/ DesensitizeFile]_vars

-----------------------------------------------------------------------------
(* Memory isolation (memory-isolation.ts) and the session_end hook.        *)
(* A memory file is the tuple of its characters; "" is also what           *)
(* readMemory returns for a file that does not exist.                      *)

MaxMemoryLines == 3

NoSessionKey == <<>>

\* String.prototype.split("\n")
RECURSIVE splitLines(_)
splitLines(s) ==
    IF \A i \in 1..Len(s) : s[i] # "\n"
    THEN <<s>>
    ELSE LET i == CHOOSE j \in 1..Len(s) :
                    s[j] = "\n" /\ \A k \in 1..(j - 1) : s[k] # "\n"
         IN <<SubSeq(s, 1, i - 1)>> \o splitLines(SubSeq(s, i + 1, Len(s)))

\* Array.prototype.join("\n")
RECURSIVE joinLines(_)
joinLines(lines) ==
    IF Len(lines) = 0 THEN <<>>
    ELSE IF Len(lines) = 1 THEN lines[1]
    ELSE lines[1] \o <<"\n">> \o joinLines(Tail(lines))

\* line.trim() === ""
isBlankLine(line) == \A i \in 1..Len(line) : line[i] \in SpaceChars

\* lowerLine.includes(marker) for one of the three markers
hasGuardMarker(line) ==
    LET lowerLine == toLowerCase(line)
        markers ==
            {<<"[", "g", "u", "a", "r", "d", " ", "a", "g", "e", "n", "t", "]">>,
             <<"g", "u", "a", "r", "d", ":">>,
             <<"p", "r", "i", "v", "a", "t", "e", " ", "c", "o", "n", "t", "e", "x", "t", ":">>}
    IN \E m \in markers : includes(lowerLine, m)

\* the loop of filterGuardContent over the remaining lines
RECURSIVE filterLines(_, _, _)
filterLines(lines, skipSection, filtered) ==
    IF lines = <<>> THEN filtered
    ELSE LET line == Head(lines)
             rest == Tail(lines)
             isHeader == startsWithAt(line, 1, <<"#">>)
         IN IF hasGuardMarker(line)
            THEN filterLines(rest, TRUE, filtered)
            ELSE IF skipSection /\ (isBlankLine(line) \/ isHeader)
            THEN filterLines(rest, FALSE,
                             IF isHeader THEN Append(filtered, line) ELSE filtered)
            ELSE IF skipSection
            THEN filterLines(rest, TRUE, filtered)
            ELSE filterLines(rest, FALSE, Append(filtered, line))

\* only the marked lines themselves are dropped
filterGuardContent_markedOnly(content) ==
    joinLines(SelectSeq(splitLines(content), LAMBDA l : ~hasGuardMarker(l)))

filterGuardContent(content) ==
    joinLines(filterLines(splitLines(content), FALSE, <<>>))

\* readMemory(isCloudModel): MEMORY.md for cloud models, MEMORY-FULL.md otherwise
readMemory(mem, isCloudModel) == IF isCloudModel THEN mem.clean ELSE mem.full

\* writeMemory(content, isCloudModel) without the append option
writeMemory(mem, content, isCloudModel) ==
    IF isCloudModel
    THEN [mem EXCEPT !.clean = content, !.cleanExists = TRUE]
    ELSE [mem EXCEPT !.full = content]

syncMemoryToClean(mem) ==
    LET fullMemory == readMemory(mem, FALSE)
    IN IF fullMemory = <<>>
       THEN mem
       ELSE writeMemory(mem, filterGuardContent(fullMemory), TRUE)

\* memory texts of at most MaxMemoryLines lines, with or without a final newline
MemoryContents ==
    LET lines ==
            {<<"#", " ", "L", "o", "g">>,
             <<"[", "G", "u", "a", "r", "d", " ", "A", "g", "e", "n", "t", "]", " ",
               "u", "s", "e", "r", " ", "a", "s", "k", "e", "d", " ",
               "a", "b", "o", "u", "t", " ", "p", "a", "y", "s", "l", "i", "p">>,
             <<"r", "e", "g", "u", "l", "a", "r", " ", "n", "o", "t", "e">>,
             <<"P", "r", "i", "v", "a", "t", "e", " ",
               "C", "o", "n", "t", "e", "x", "t", ":", " ", "p", "a", "y">>,
             ContentPassword,
             <<>>}
        seqs == UNION { [1..n -> lines] : n \in 1..MaxMemoryLines }
    IN { joinLines(ls) : ls \in seqs } \cup { joinLines(ls) \o <<"\n">> : ls \in seqs }

\* the agent running on the local model writes MEMORY-FULL.md (once per behaviour)
WriteFullMemory ==
    \E content \in MemoryContents :
        /\ memory.full = <<>>
        /\ nEvents < MaxOps
        /\ nEvents' = nEvents + 1
        /\ memory' = writeMemory(memory, content, FALSE)
        /\ call' = [NoCall EXCEPT !.hook = "writeMemory"]
        /\ UNCHANGED <<sessionStates, preReadFiles, hFull, hClean, config, dz,
                       pending, rd>>

\* the agent running on a cloud model writes MEMORY.md before anything was
\* written to MEMORY-FULL.md: writeMemory(content, true)
WriteCleanMemory ==
    \E content \in {<<"c", "l", "o", "u", "d", " ", "n", "o", "t", "e">>} :
        /\ memory.full = <<>>
        /\ ~memory.cleanExists
        /\ nEvents < MaxOps
        /\ nEvents' = nEvents + 1
        /\ memory' = writeMemory(memory, content, TRUE)
        /\ call' = [NoCall EXCEPT !.hook = "writeMemory"]
        /\ UNCHANGED <<sessionStates, preReadFiles, hFull, hClean, config, dz,
                       pending, rd>>

\* a checkpoint marks the session: markSessionAsPrivate(sessionKey, level)
MarkSession ==
    \E key \in MainKeys, level \in {"S2", "S3"} :
        /\ nEvents < MaxOps
        /\ nEvents' = nEvents + 1
        /\ sessionStates' = markSessionAsPrivate(sessionStates, key, level)
        /\ call' = [NoCall EXCEPT !.hook = "markSessionAsPrivate", !.key = key,
                                  !.level = level]
        /\ UNCHANGED <<preReadFiles, hFull, hClean, config, dz, memory, pending, rd>>

\* api.on("session_end")
SessionEnd ==
    \E key \in MainKeys \cup {NoSessionKey} :
        /\ nEvents < MaxOps
        /\ nEvents' = nEvents + 1
        /\ LET wasPrivate == key # NoSessionKey
                             /\ isSessionMarkedPrivate(sessionStates, key)
           IN /\ memory' = IF wasPrivate THEN syncMemoryToClean(memory) ELSE memory
              /\ call' = [NoCall EXCEPT !.hook = "session_end", !.key = key,
                                        !.synced = wasPrivate]
        /\ UNCHANGED <<sessionStates, preReadFiles, hFull, hClean, config, dz,
                       pending, rd>>

SpecMemory ==
    InitSession /\ [][WriteFullMemory \/ WriteCleanMemory \/ MarkSession \/ SessionEnd]_vars

-----------------------------------------------------------------------------
(* Dual-track writes of tool results (SpecPersist).  tool_result_persist   *)
(* starts persistMessage without awaiting it: the write stays in `pending` *)
(* until it settles, while later handlers of the session run.              *)

MaxPersistEvents == 3

\* Hook 1 on the sessions and messages of this specification
PersistMessageReceived ==
    \E key \in MainKeys,
       msg \in { << <<"hello">> >>, << <<"salary">>, <<"slip">> >> },
       level \in Levels \cup {"failed"}, persistOk \in BOOLEAN :
    \E tier \in persistTiers(sessionStates, key) :
        MessageReceivedOn(key, msg, level, persistOk, tier, MaxPersistEvents)

\* Hook 4: tool_result_persist
ToolResultPersist ==
    \E key \in MainKeys \cup {NoSessionKey},
       message \in { << <<"ok">> >>, << <<"rows">>, <<"42">> >> } :
        LET isPrivate == key # NoSessionKey /\ isSessionMarkedPrivate(sessionStates, key)
        IN
        /\ nEvents < MaxPersistEvents
        /\ nEvents' = nEvents + 1
        /\ IF isPrivate
           THEN \E tier \in persistTiers(sessionStates, key) :
                    pending' = Append(pending,
                                      [key |-> key, tier |-> tier,
                                       rec |-> SessionMessage("tool", message)])
           ELSE UNCHANGED pending
        /\ call' = [NoCall EXCEPT !.hook = "tool_result_persist", !.key = key,
                                  !.msg = message]
        /\ UNCHANGED <<sessionStates, preReadFiles, hFull, hClean, config, dz,
                       memory, rd>>

\* a write started by tool_result_persist settles: it appends to both tracks,
\* or it rejects and the .catch handler logs the error
SettlePersist ==
    \E i \in 1..Len(pending), persistOk \in BOOLEAN :
        LET w == pending[i]
        IN
        /\ pending' = SubSeq(pending, 1, i - 1) \o SubSeq(pending, i + 1, Len(pending))
        /\ IF persistOk
           THEN /\ hFull' = persistFull(hFull, w.key, w.rec)
                /\ hClean' = persistClean(hClean, w.key, w.rec, w.tier)
           ELSE UNCHANGED <<hFull, hClean>>
        /\ call' = [NoCall EXCEPT !.hook = "persistMessage", !.key = w.key,
                                  !.msg = w.rec.content, !.threw = ~persistOk]
        /\ UNCHANGED <<sessionStates, preReadFiles, config, nEvents, dz, memory, rd>>

SpecPersist ==
    InitSession /\ [][PersistMessageReceived \/ ToolResultPersist \/ SettlePersist]_vars

-----------------------------------------------------------------------------
(* Rule detector (rules.ts), SpecRules.  Texts, tool names and paths are   *)
(* tuples of characters; an absent or empty field of the context is <<>>.  *)

\* String.prototype.endsWith
endsWith(s, w) == Len(s) >= Len(w) /\ SubSeq(s, Len(s) - Len(w) + 1, Len(s)) = w

\* config.rules of defaultPrivacyConfig
DefaultRules ==
    [patterns |-> [S2 |-> {}, S3 |-> {}],
     keywords |->
        [S2 |-> {<<"p", "a", "s", "s", "w", "o", "r", "d">>,
     <<"a", "p", "i", "_", "k", "e", "y">>,
     <<"s", "e", "c", "r", "e", "t">>,
     <<"t", "o", "k", "e", "n">>,
     <<"c", "r", "e", "d", "e", "n", "t", "i", "a", "l">>},
         S3 |-> {<<"s", "s", "h">>,
     <<"i", "d", "_", "r", "s", "a">>,
     <<"p", "r", "i", "v", "a", "t", "e", "_", "k", "e", "y">>,
     <<".", "p", "e", "m">>,
     <<".", "k", "e", "y">>}],
     tools |->
        [S2 |-> [tools |-> {<<"e", "x", "e", "c">>}, paths |-> {}],
         S3 |-> [tools |-> {<<"s", "y", "s", "t", "e", "m", ".", "r", "u", "n">>},
                 paths |-> {<<"~", "/", ".", "s", "s", "h">>,
     <<"/", "e", "t", "c">>,
     <<"~", "/", ".", "a", "w", "s">>,
     <<"~", "/", ".", "c", "o", "n", "f", "i", "g">>}]]]

\* a configuration without rules: every list is `?? []`
EmptyRules ==
    [patterns |-> [S2 |-> {}, S3 |-> {}],
     keywords |-> [S2 |-> {}, S3 |-> {}],
     tools |-> [S2 |-> [tools |-> {}, paths |-> {}],
                S3 |-> [tools |-> {}, paths |-> {}]]]

\* a user configuration with S2 paths and with two of the default regex patterns
\* (the pattern sources are kept as written in the configuration)
CustomRules ==
    [patterns |-> [S2 |-> {"(?:mysql|postgres|mongodb|redis)://[^\\s]+"},
                   S3 |-> {"AKIA[0-9A-Z]{16}"}],
     keywords |-> [S2 |-> {<<"S", "a", "l", "a", "r", "y">>}, S3 |-> {}],
     tools |-> [S2 |-> [tools |-> {}, paths |-> {<<"~", "/", "a", "p", "p">>,
     <<"*", ".", "c", "s", "v">>}],
                S3 |-> [tools |-> {}, paths |-> {}]]]

RuleConfigs == {DefaultRules, EmptyRules, CustomRules}

\* utils.normalizePath: a leading "~/" has its "~" replaced by $HOME
normalizePath(path) ==
    IF startsWithAt(path, 1, <<"~", "/">>)
    THEN <<"/", "h", "o", "m", "e", "/", "u">> \o Tail(path)
    ELSE path

\* utils.matchesPathPattern: exact match, directory prefix, or '*' suffix
matchesPathPattern(path, patterns) ==
    LET normalizedPath == normalizePath(path)
    IN \E pattern \in patterns :
           LET normalizedPattern == normalizePath(pattern)
           IN \/ normalizedPath = normalizedPattern
              \/ startsWithAt(normalizedPath, 1, normalizedPattern \o <<"/">>)
              \/ startsWithAt(normalizedPath, 1, normalizedPattern \o <<"\\">>)
              \/ /\ startsWithAt(pattern, 1, <<"*">>)
                 /\ endsWith(normalizedPath, Tail(pattern))

\* String.prototype.trim
trim(s) ==
    LET inner == {i \in 1..Len(s) : s[i] \notin SpaceChars}
    IN IF inner = {} THEN <<>>
       ELSE SubSeq(s, CHOOSE i \in inner : \A j \in inner : i <= j,
                      CHOOSE i \in inner : \A j \in inner : i >= j)

\* utils.extractPathsFromParams: the trimmed non-blank strings under the path
\* keys of the object and of its nested objects (arrays are not entered); the
\* callers test the paths one by one, so the result is the set of the paths
RECURSIVE extractPathsFromParams(_)
extractPathsFromParams(params) ==
    LET keys == {"path", "file", "filepath", "filename", "dir", "directory", "target"}
    IN { trim(params[k].s) :
           k \in { k \in DOMAIN params \cap keys :
                     params[k].t = "str" /\ trim(params[k].s) # <<>> } }
       \cup UNION { extractPathsFromParams(params[k].o) :
                      k \in { k \in DOMAIN params : params[k].t = "obj" } }

\* types.maxLevel(...levels): the highest of the given levels
maxLevel(levels) ==
    CHOOSE l \in {levels[i] : i \in 1..Len(levels)} :
        \A i \in 1..Len(levels) : order(l) >= order(levels[i])

\* types.levelToNumeric
levelToNumeric(level) == order(level)

checkKeywords(text, rules) ==
    LET lowerText == toLowerCase(text)
    IN IF \E keyword \in rules.keywords.S3 : includes(lowerText, toLowerCase(keyword))
       THEN "S3"
       ELSE IF \E keyword \in rules.keywords.S2 :
                   includes(lowerText, toLowerCase(keyword))
       THEN "S2"
       ELSE "S1"

checkToolType(toolName, rules) ==
    LET normalizedTool == toLowerCase(toolName)
        hit(tools) == \E tool \in tools :
                          \/ normalizedTool = toLowerCase(tool)
                          \/ includes(normalizedTool, toLowerCase(tool))
    IN IF hit(rules.tools.S3.tools) THEN "S3"
       ELSE IF hit(rules.tools.S2.tools) THEN "S2"
       ELSE "S1"

hasSensitiveExtension(path) ==
    LET lowerPath == toLowerCase(path)
        extensions ==
            {<<".", "p", "e", "m">>,
             <<".", "k", "e", "y">>,
             <<".", "p", "1", "2">>,
             <<".", "p", "f", "x">>}
        names ==
            {<<"i", "d", "_", "r", "s", "a">>,
             <<"i", "d", "_", "d", "s", "a">>,
             <<"i", "d", "_", "e", "c", "d", "s", "a">>,
             <<"i", "d", "_", "e", "d", "2", "5", "5", "1", "9">>}
    IN \/ \E e \in extensions : endsWith(lowerPath, e)
       \/ \E n \in names : includes(lowerPath, n)

checkToolParams(params, rules) ==
    LET paths == extractPathsFromParams(params)
    IN IF paths = {} THEN "S1"
       ELSE IF \E path \in paths : matchesPathPattern(path, rules.tools.S3.paths)
       THEN "S3"
       ELSE IF \E path \in paths : matchesPathPattern(path, rules.tools.S2.paths)
       THEN "S2"
       ELSE IF \E path \in paths : hasSensitiveExtension(path)
       THEN "S3"
       ELSE "S1"

\* levels.push(level) when the sub-check ran and did not answer S1
pushLevel(levels, ran, level) ==
    IF ran /\ level # "S1" THEN Append(levels, level) ELSE levels

\* the tool-result check is left out
detectByRules_noResultCheck(context, rules) ==
    LET l1 == pushLevel(<<>>, context.message # <<>>,
                        checkKeywords(context.message, rules))
        l2 == pushLevel(l1, context.toolName # <<>>,
                        checkToolType(context.toolName, rules))
        l3 == pushLevel(l2, context.toolParams.present,
                        checkToolParams(context.toolParams.o, rules))
        finalLevel == IF Len(l3) > 0 THEN maxLevel(l3) ELSE "S1"
    IN [level |-> finalLevel, levelNumeric |-> levelToNumeric(finalLevel),
        detectorType |-> "ruleDetector", confidence |-> 1]

detectByRules(context, rules) ==
    LET l1 == pushLevel(<<>>, context.message # <<>>,
                        checkKeywords(context.message, rules))
        l2 == pushLevel(l1, context.toolName # <<>>,
                        checkToolType(context.toolName, rules))
        l3 == pushLevel(l2, context.toolParams.present,
                        checkToolParams(context.toolParams.o, rules))
        l4 == pushLevel(l3, context.toolResult # <<>>,
                        checkKeywords(context.toolResult, rules))
        finalLevel == IF Len(l4) > 0 THEN maxLevel(l4) ELSE "S1"
    IN [level |-> finalLevel, levelNumeric |-> levelToNumeric(finalLevel),
        detectorType |-> "ruleDetector", confidence |-> 1]

\* one call of detectByRules; the levels of the four sub-checks are kept
\* beside the result ("S1" for a sub-check that did not run)
DetectByRules ==
    \E message \in {<<>>,
                      <<"h", "e", "l", "l", "o">>,
                      <<"m", "y", " ", "P", "a", "s", "s", "w", "o", "r", "d">>,
                      <<"t", "h", "e", " ", "S", "S", "H", " ", "h", "o", "s", "t">>,
                      <<"s", "a", "l", "a", "r", "y">>,
                      <<"A", "K", "I", "A", "A", "B", "C", "D", "E", "F", "G", "H",
                        "I", "J", "K", "L", "M", "N", "O", "P">>,
                      <<"r", "e", "d", "i", "s", ":", "/", "/", "h">>},
       toolName \in {<<>>,
                       <<"r", "e", "a", "d">>,
                       <<"E", "x", "e", "c">>,
                       <<"s", "y", "s", "t", "e", "m", ".", "r", "u", "n">>},
       toolParams \in
         { NoParams,
               Params(Obj1("path", StrVal(<<"a", ".", "t", "x", "t">>))),
               Params(Obj1("path", StrVal(<<"/", "h", "o", "m", "e", "/", "u", "/", ".", "s", "s", "h", "/", "i", "d">>))),
               Params(Obj1("file", StrVal(<<"k", ".", "P", "E", "M">>))),
               Params(Obj1("options", ObjVal(Obj1("target", StrVal(<<"/", "e", "t", "c", "/", "x">>))))),
               Params(Obj1("dir", StrVal(<<"~", "/", "a", "p", "p", "/", "q">>))),
               Params(Obj1("file", StrVal(<<"q", ".", "c", "s", "v">>))),
               Params(Obj1("file", StrVal(<<" ", "~", "/", "a", "p", "p", "/", "i", "d", "_", "r", "s", "a">>))),
               Params([k \in {"dir", "file"} |->
                          IF k = "dir" THEN StrVal(<<"~", "/", "a", "p", "p", "/", "q">>)
                          ELSE StrVal(<<"k", ".", "p", "f", "x">>)]) },
       toolResult \in {<<>>,
                         <<"o", "k">>,
                         <<"t", "o", "k", "e", "n", " ", "x">>},
       rules \in RuleConfigs :
        LET context == [message |-> message, toolName |-> toolName,
                        toolParams |-> toolParams, toolResult |-> toolResult]
        IN
        /\ rd.mode = "none"
        /\ rd' = [mode |-> "rules", context |-> context, rules |-> rules,
                  keyword |-> IF message # <<>>
                              THEN checkKeywords(message, rules) ELSE "S1",
                  tool |-> IF toolName # <<>>
                           THEN checkToolType(toolName, rules) ELSE "S1",
                  params |-> IF toolParams.present
                             THEN checkToolParams(toolParams.o, rules) ELSE "S1",
                  result |-> IF toolResult # <<>>
                             THEN checkKeywords(toolResult, rules) ELSE "S1",
                  detection |-> detectByRules(context, rules)]
        /\ UNCHANGED <<sessionStates, preReadFiles, hFull, hClean, config, call,
                       nEvents, dz, memory, pending>>

\* a value of a parsed JSON document: t is "str", "num", "null" or "undefined"
\* (a missing member); numbers are held in tenths
JsonVal(t, s, n) == [t |-> t, s |-> s, n |-> n]

\* String.prototype.indexOf from a position, 1-based; 0 when absent
indexOf(s, w, from) ==
    LET hits == {i \in from..(Len(s) + 1) : startsWithAt(s, i, w)}
    IN IF hits = {} THEN 0 ELSE CHOOSE i \in hits : \A j \in hits : i <= j

\* JSON.parse of a text that starts with "{" and ends at the first "}": an
\* object of members "key": value, a value being a string without escapes, a
\* number d or d.d, or null, none of them holding a comma. Every other text
\* the replies below produce is a SyntaxError (ok = FALSE). A repeated key keeps
\* its last value.
JSONparse(text) ==
    LET digit == [c \in Digits |->
                     (CHOOSE k \in 1..10 :
                         <<"0", "1", "2", "3", "4", "5", "6", "7", "8", "9">>[k] = c) - 1]
        invalid == JsonVal("invalid", <<>>, 0)
        valueOf(v) ==
            IF /\ Len(v) >= 2
               /\ v[1] = "\""
               /\ v[Len(v)] = "\""
               /\ \A i \in 2..(Len(v) - 1) : v[i] \notin {"\"", "\\"}
            THEN JsonVal("str", SubSeq(v, 2, Len(v) - 1), 0)
            ELSE IF Len(v) = 1 /\ v[1] \in Digits
            THEN JsonVal("num", <<>>, 10 * digit[v[1]])
            ELSE IF Len(v) = 3 /\ v[1] \in Digits /\ v[2] = "." /\ v[3] \in Digits
            THEN JsonVal("num", <<>>, 10 * digit[v[1]] + digit[v[3]])
            ELSE IF v = <<"n", "u", "l", "l">>
            THEN JsonVal("null", <<>>, 0)
            ELSE invalid
        \* the member m that starts at position at: its key ends at close and
        \* rest is what follows the key
        memberWith(at, m, close, rest) ==
            IF rest # <<>> /\ rest[1] = ":"
            THEN [at |-> at, key |-> SubSeq(m, 2, close - 1),
                  value |-> valueOf(trim(Tail(rest)))]
            ELSE [at |-> at, key |-> <<>>, value |-> invalid]
        memberClosed(at, m, close) ==
            IF close # 0
            THEN memberWith(at, m, close, trim(SubSeq(m, close + 1, Len(m))))
            ELSE [at |-> at, key |-> <<>>, value |-> invalid]
        member(at, m) ==
            IF Len(m) >= 2 /\ m[1] = "\""
            THEN memberClosed(at, m, indexOf(m, <<"\"">>, 2))
            ELSE [at |-> at, key |-> <<>>, value |-> invalid]
        endOf(at, body, later) ==
            IF later = {} THEN Len(body)
            ELSE (CHOOSE i \in later : \A j \in later : i <= j) - 1
        membersOf(body, commas) ==
            { member(at, trim(SubSeq(body, at,
                                     endOf(at, body, {i \in commas : i >= at})))) :
                at \in {1} \cup {i + 1 : i \in commas} }
        object(members) ==
            [ok |-> \A m \in members : m.value.t # "invalid",
             o |-> [k \in {m.key : m \in members} |->
                      (CHOOSE m \in members :
                          /\ m.key = k
                          /\ \A n \in members : n.key = k => n.at <= m.at).value]]
        parseBody(body) ==
            IF body = <<>> THEN object({})
            ELSE object(membersOf(body, {i \in 1..Len(body) : body[i] = ","}))
    IN parseBody(trim(SubSeq(text, 2, Len(text) - 1)))

\* local-model.parseModelResponse; the body is one try/catch whose handler
\* returns S1 with confidence 0
parseModelResponse(response) ==
    LET parseError == [level |-> "S1", reason |-> JsonVal("str", <<"Parse error">>, 0),
                       confidence |-> JsonVal("num", <<>>, 0)]
        undefined == JsonVal("undefined", <<>>, 0)
        \* the fallback: level mentions in the text
        scan(upperResponse) ==
            IF \/ includes(upperResponse, <<"S", "3">>)
               \/ includes(upperResponse, <<"P", "R", "I", "V", "A", "T", "E">>)
            THEN [level |-> "S3",
                  reason |-> JsonVal("str", <<"Detected from text analysis">>, 0),
                  confidence |-> JsonVal("num", <<>>, 6)]
            ELSE IF \/ includes(upperResponse, <<"S", "2">>)
                    \/ includes(upperResponse,
                                <<"S", "E", "N", "S", "I", "T", "I", "V", "E">>)
            THEN [level |-> "S2",
                  reason |-> JsonVal("str", <<"Detected from text analysis">>, 0),
                  confidence |-> JsonVal("num", <<>>, 6)]
            ELSE [level |-> "S1",
                  reason |-> JsonVal("str", <<"Unable to parse model response">>, 0),
                  confidence |-> JsonVal("num", <<>>, 3)]
        property(o, k) == IF k \in DOMAIN o THEN o[k] ELSE undefined
        \* level is parsed.level?.toUpperCase() of a string level
        withLevel(o, level) ==
            IF level \in {<<"S", "1">>, <<"S", "2">>, <<"S", "3">>}
            THEN [level |-> CASE level = <<"S", "1">> -> "S1"
                              [] level = <<"S", "2">> -> "S2"
                              [] level = <<"S", "3">> -> "S3",
                  reason |-> property(o, <<"r", "e", "a", "s", "o", "n">>),
                  confidence |->
                      property(o, <<"c", "o", "n", "f", "i", "d", "e", "n", "c", "e">>)]
            ELSE scan(toUpperCase(response))
        \* toUpperCase raises a TypeError on a level that is a number
        withLevelValue(o, levelValue) ==
            IF levelValue.t = "str" THEN withLevel(o, toUpperCase(levelValue.s))
            ELSE IF levelValue.t \in {"undefined", "null"}
            THEN scan(toUpperCase(response))
            ELSE parseError
        withParsed(parsed) ==
            IF parsed.ok
            THEN withLevelValue(parsed.o, property(parsed.o, <<"l", "e", "v", "e", "l">>))
            ELSE parseError
        \* response.match(/\{[\s\S]*?\}/): from the first "{" to the first "}"
        \* after it
        matched(open, close) ==
            IF close # 0 THEN withParsed(JSONparse(SubSeq(response, open, close)))
            ELSE scan(toUpperCase(response))
        opened(open) ==
            matched(open, IF open = 0 THEN 0 ELSE indexOf(response, <<"}">>, open + 1))
    IN opened(indexOf(response, <<"{">>, 1))

\* result.replace(/<think>[\s\S]*?<\/think>/g, "")
RECURSIVE stripThinkBlocks(_)
stripThinkBlocks(s) ==
    LET cut(open, close) ==
            IF close = 0 THEN s
            ELSE SubSeq(s, 1, open - 1) \o stripThinkBlocks(SubSeq(s, close + 8, Len(s)))
        opened(open) ==
            cut(open, IF open = 0 THEN 0
                      ELSE indexOf(s, <<"<", "/", "t", "h", "i", "n", "k", ">">>, open + 7))
    IN opened(indexOf(s, <<"<", "t", "h", "i", "n", "k", ">">>, 1))

\* local-model.callOllama: outcome is what fetch did ("rejected": the promise
\* rejected, "status": a response that is not ok, "ok"), reply is data.response
callOllama(outcome, reply) ==
    LET \* the text after the last "</think>", which starts at lastThinkClose
        sliced(result, lastThinkClose) ==
            IF lastThinkClose # 0
            THEN trim(SubSeq(result, lastThinkClose + 8, Len(result)))
            ELSE result
        closed(result, closes) ==
            sliced(result, IF closes = {} THEN 0
                           ELSE CHOOSE i \in closes : \A j \in closes : j <= i)
        stripped(result) ==
            closed(result,
                   {i \in 1..Len(result) :
                       startsWithAt(result, i, <<"<", "/", "t", "h", "i", "n", "k", ">">>)})
    IN IF outcome # "ok"
       THEN [threw |-> TRUE, result |-> <<>>]
       ELSE [threw |-> FALSE, result |-> stripped(trim(stripThinkBlocks(reply)))]

\* local-model.callLocalModel; provider "undefined" stands for an unset one
callLocalModel(localModel, outcome, reply) ==
    IF localModel.provider \in {"undefined", "ollama"}
    THEN callOllama(outcome, reply)
    ELSE [threw |-> TRUE, result |-> <<>>]

\* without the try/catch: the error of callLocalModel leaves the function
detectByLocalModel_rethrows(localModel, outcome, reply) ==
    LET result(threw, parsed) ==
            [threw |-> threw, level |-> parsed.level,
             levelNumeric |-> levelToNumeric(parsed.level),
             reason |-> parsed.reason,
             detectorType |-> "localModelDetector",
             confidence |-> IF parsed.confidence.t \in {"undefined", "null"}
                            THEN JsonVal("num", <<>>, 8) ELSE parsed.confidence]
        disabled == [level |-> "S1", reason |-> JsonVal("str", <<"disabled">>, 0),
                     confidence |-> JsonVal("num", <<>>, 0)]
        fromResponse(response) ==
            IF response.threw THEN result(TRUE, disabled)
            ELSE result(FALSE, parseModelResponse(response.result))
    IN IF ~localModel.enabled THEN result(FALSE, disabled)
       ELSE fromResponse(callLocalModel(localModel, outcome, reply))

\* local-model.detectByLocalModel; threw tells whether the call raised instead
\* of returning the record
detectByLocalModel(localModel, outcome, reply) ==
    LET failed(reason) ==
            [threw |-> FALSE, level |-> "S1", levelNumeric |-> 1,
             reason |-> JsonVal("str", <<reason>>, 0),
             detectorType |-> "localModelDetector",
             confidence |-> JsonVal("num", <<>>, 0)]
        fromParsed(parsed) ==
            [threw |-> FALSE, level |-> parsed.level,
             levelNumeric |-> levelToNumeric(parsed.level),
             reason |-> parsed.reason,
             detectorType |-> "localModelDetector",
             confidence |-> IF parsed.confidence.t \in {"undefined", "null"}
                            THEN JsonVal("num", <<>>, 8) ELSE parsed.confidence]
        fromResponse(response) ==
            IF response.threw THEN failed("Local model error")
            ELSE fromParsed(parseModelResponse(response.result))
    IN IF ~localModel.enabled THEN failed("Local model detection disabled")
       ELSE fromResponse(callLocalModel(localModel, outcome, reply))

\* detector.detectSensitivityLevel: the detectors' results reduced by tier
\* supremum
detectSensitivityLevel(ruleResult, modelResult) ==
    maxLevel(<<ruleResult.level, modelResult.level>>)

\* one call of detectByLocalModel, beside the rule detector's result for the
\* same context and the aggregated tier
DetectByLocalModel ==
    \E message \in {<<"h", "e", "l", "l", "o">>,
                      <<"m", "y", " ", "P", "a", "s", "s", "w", "o", "r", "d">>,
                      <<"s", "a", "l", "a", "r", "y">>},
       rules \in RuleConfigs,
       enabled \in BOOLEAN,
       provider \in {"undefined", "ollama", "openai"},
       outcome \in {"ok", "rejected", "status"},
       reply \in {
                 \* {"level":"S2","reason":"pay","confidence":0.9}
                 <<"{", "\"", "l", "e", "v", "e", "l", "\"", ":", "\"", "S", "2", "\"",
                   ",", "\"", "r", "e", "a", "s", "o", "n", "\"", ":", "\"", "p", "a",
                   "y", "\"", ",", "\"", "c", "o", "n", "f", "i", "d", "e", "n", "c",
                   "e", "\"", ":", "0", ".", "9", "}">>,
                 \* {"level": "s3"}
                 <<"{", "\"", "l", "e", "v", "e", "l", "\"", ":", " ", "\"", "s", "3",
                   "\"", "}">>,
                 \* {"level":"high"} S3
                 <<"{", "\"", "l", "e", "v", "e", "l", "\"", ":", "\"", "h", "i", "g",
                   "h", "\"", "}", " ", "S", "3">>,
                 \* I think S2
                 <<"I", " ", "t", "h", "i", "n", "k", " ", "S", "2">>,
                 \* {level: S3} PRIVATE
                 <<"{", "l", "e", "v", "e", "l", ":", " ", "S", "3", "}", " ", "P",
                   "R", "I", "V", "A", "T", "E">>,
                 \* not sure
                 <<"n", "o", "t", " ", "s", "u", "r", "e">>,
                 \* {"reason":"none"} sensitive
                 <<"{", "\"", "r", "e", "a", "s", "o", "n", "\"", ":", "\"", "n", "o",
                   "n", "e", "\"", "}", " ", "s", "e", "n", "s", "i", "t", "i", "v",
                   "e">>,
                 \* {"level":2} S2
                 <<"{", "\"", "l", "e", "v", "e", "l", "\"", ":", "2", "}", " ", "S",
                   "2">>,
                 \* <think>S3?</think>{"level":"S1"}
                 <<"<", "t", "h", "i", "n", "k", ">", "S", "3", "?", "<", "/", "t",
                   "h", "i", "n", "k", ">", "{", "\"", "l", "e", "v", "e", "l", "\"",
                   ":", "\"", "S", "1", "\"", "}">>,
                 <<>>,
                 \* {"level":null} private
                 <<"{", "\"", "l", "e", "v", "e", "l", "\"", ":", "n", "u", "l", "l",
                   "}", " ", "p", "r", "i", "v", "a", "t", "e">>,
                 \* a</think> {"level":"S1","confidence":1} 
                 <<"a", "<", "/", "t", "h", "i", "n", "k", ">", " ", "{", "\"", "l",
                   "e", "v", "e", "l", "\"", ":", "\"", "S", "1", "\"", ",", "\"", "c",
                   "o", "n", "f", "i", "d", "e", "n", "c", "e", "\"", ":", "1", "}",
                   " ">> } :
        LET context == [message |-> message, toolName |-> <<>>,
                        toolParams |-> NoParams, toolResult |-> <<>>]
            localModel == [enabled |-> enabled, provider |-> provider]
            called(ruleResult, modelResult) ==
                [mode |-> "model", context |-> context, rules |-> rules,
                 localModel |-> localModel, outcome |-> outcome, reply |-> reply,
                 response |-> callLocalModel(localModel, outcome, reply),
                 ruleDetection |-> ruleResult,
                 detection |-> modelResult,
                 aggregated |-> detectSensitivityLevel(ruleResult, modelResult)]
        IN
        /\ rd.mode = "none"
        /\ rd' = called(detectByRules(context, rules),
                        detectByLocalModel(localModel, outcome, reply))
        /\ UNCHANGED <<sessionStates, preReadFiles, hFull, hClean, config, call,
                       nEvents, dz, memory, pending>>

SpecRules == InitSession /\ [][DetectByRules \/ DetectByLocalModel]_vars

-----------------------------------------------------------------------------
(* Event buses of plugin-events.ts and guardclaw-events.ts (SpecBus).      *)
(* Each module keeps `const listeners = new Set<...>()`.  A Set iterates   *)
(* in insertion order over its entry list: delete() empties the entry in   *)
(* place, add() of a value that is not in the Set appends an entry, and a   *)
(* running iteration sees both.  The entry list is a sequence in which      *)
(* "empty" marks a deleted entry; between operations only the live entries  *)
(* are kept.                                                                *)

\* operations on a bus in one behaviour
MaxBusOps == 5

\* calls of onPluginEvent and onGuardClawEvent in one behaviour
MaxSubscriptions == 3

\* listener invocations of one emit that are followed; an emit over at most
\* MaxSubscriptions listeners of which none subscribes makes fewer
MaxCalls == 4

\* listeners.add(listener)
listenersAdd(data, listener) ==
    IF \E i \in 1..Len(data) : data[i] = listener THEN data ELSE Append(data, listener)

\* listeners.delete(listener)
listenersDelete(data, listener) ==
    [i \in 1..Len(data) |-> IF data[i] = listener THEN "empty" ELSE data[i]]

\* the listeners that are subscribed: "quiet" returns, "faulty" throws, "closer"
\* calls the unsubscribe function of "quiet" and returns, "rearm" calls its own
\* unsubscribe function, subscribes itself again and returns
listenerBody(listener, data) ==
    CASE listener = "quiet" -> [data |-> data, threw |-> FALSE]
      [] listener = "faulty" -> [data |-> data, threw |-> TRUE]
      [] listener = "closer" ->
             [data |-> listenersDelete(data, "quiet"), threw |-> FALSE]
      [] listener = "rearm" ->
             [data |-> listenersAdd(listenersDelete(data, "rearm"), "rearm"),
              threw |-> FALSE]

\* for (const listener of listeners) { try { listener(event) } catch { } }
\* from entry i on; `returned` is FALSE when the loop is still running after
\* MaxCalls invocations
RECURSIVE forOfListeners(_, _, _, _, _)
forOfListeners(data, i, event, calls, ignored) ==
    IF i > Len(data)
    THEN [data |-> data, calls |-> calls, ignored |-> ignored, returned |-> TRUE,
          thrown |-> FALSE]
    ELSE IF Len(calls) >= MaxCalls
    THEN [data |-> data, calls |-> calls, ignored |-> ignored, returned |-> FALSE,
          thrown |-> FALSE]
    ELSE IF data[i] = "empty"
    THEN forOfListeners(data, i + 1, event, calls, ignored)
    ELSE LET after(r) ==
                 forOfListeners(r.data, i + 1, event,
                                Append(calls, [listener |-> data[i], event |-> event]),
                                IF r.threw THEN ignored + 1 ELSE ignored)
         IN after(listenerBody(data[i], data))

InitBus ==
    /\ sessionStates = [k \in Keys |-> NoState]
    /\ preReadFiles = [k \in Keys |-> {}]
    /\ hFull = EmptyTracks
    /\ hClean = EmptyTracks
    /\ config = DefaultConfig
    /\ call = NoCall
    /\ nEvents = 0
    /\ dz = NoDesens
    /\ memory = NoMemory
    /\ pending = NoPending
    /\ rd = [mode |-> "bus",
             listeners |-> [plugin |-> <<>>, guardclaw |-> <<>>],
             handles |-> <<>>,
             bus |-> "none", handle |-> 0, event |-> [eventType |-> "none"],
             before |-> <<>>, calls |-> <<>>, ignored |-> 0,
             returned |-> TRUE, thrown |-> FALSE]

\* an operation that invokes no listener and leaves the entry list `data`
noCalls(data) ==
    [data |-> data, calls |-> <<>>, ignored |-> 0, returned |-> TRUE, thrown |-> FALSE]

\* one operation on the bus `bus`; r.data is the entry list it leaves
BusStep(op, bus, handles, handle, event, r) ==
    /\ nEvents' = nEvents + 1
    /\ rd' = [rd EXCEPT !.listeners[bus] = SelectSeq(r.data, LAMBDA v : v # "empty"),
                        !.handles = handles,
                        !.bus = bus, !.handle = handle, !.event = event,
                        !.before = rd.listeners[bus],
                        !.calls = r.calls, !.ignored = r.ignored,
                        !.returned = r.returned, !.thrown = r.thrown]
    /\ call' = [NoCall EXCEPT !.hook = op]
    /\ UNCHANGED <<sessionStates, preReadFiles, hFull, hClean, config, dz, memory,
                   pending>>

\* onPluginEvent(listener): the unsubscribe function it returns is handle
\* number Len(rd.handles) + 1
OnPluginEvent ==
    \E listener \in {"quiet", "faulty", "closer", "rearm"} :
        /\ nEvents < MaxBusOps
        /\ Len(rd.handles) < MaxSubscriptions
        /\ BusStep("onPluginEvent", "plugin",
                   Append(rd.handles,
                          [bus |-> "plugin", listener |-> listener, called |-> 0]),
                   Len(rd.handles) + 1, [eventType |-> "none"],
                   noCalls(listenersAdd(rd.listeners["plugin"], listener)))

\* onGuardClawEvent(listener)
OnGuardClawEvent ==
    \E listener \in {"quiet", "faulty", "closer", "rearm"} :
        /\ nEvents < MaxBusOps
        /\ Len(rd.handles) < MaxSubscriptions
        /\ BusStep("onGuardClawEvent", "guardclaw",
                   Append(rd.handles,
                          [bus |-> "guardclaw", listener |-> listener, called |-> 0]),
                   Len(rd.handles) + 1, [eventType |-> "none"],
                   noCalls(listenersAdd(rd.listeners["guardclaw"], listener)))

\* a call of an unsubscribe function returned earlier:
\* () => listeners.delete(listener)
Unsubscribe ==
    \E h \in 1..Len(rd.handles) :
        /\ nEvents < MaxBusOps
        /\ rd.handles[h].called < 2
        /\ BusStep("unsubscribe", rd.handles[h].bus,
                   [rd.handles EXCEPT ![h].called = @ + 1],
                   h, [eventType |-> "none"],
                   noCalls(listenersDelete(rd.listeners[rd.handles[h].bus],
                                           rd.handles[h].listener)))

\* emitPluginEvent(pluginId, eventType, payload): the event is built and passed
\* to every listener
EmitPluginEvent ==
    \E event \in {[pluginId |-> "guardclaw", eventType |-> "privacy_activated"]} :
        /\ nEvents < MaxBusOps
        /\ BusStep("emitPluginEvent", "plugin", rd.handles, 0, event,
                   forOfListeners(rd.listeners["plugin"], 1, event, <<>>, 0))

\* emitGuardClawEvent(event)
EmitGuardClawEvent ==
    \E event \in {[active |-> TRUE, level |-> "S2"]} :
        /\ nEvents < MaxBusOps
        /\ BusStep("emitGuardClawEvent", "guardclaw", rd.handles, 0, event,
                   forOfListeners(rd.listeners["guardclaw"], 1, event, <<>>, 0))

SpecBus ==
    InitBus /\ [][OnPluginEvent \/ OnGuardClawEvent \/ Unsubscribe
                    \/ EmitPluginEvent \/ EmitGuardClawEvent]_vars

-----------------------------------------------------------------------------
(* Properties                                                              *)

ResetOps == {"resetSessionPrivacy", "clearSessionState"}

\* C1: at resolve_model, for a non-guard session and a message classified S3,
\* the handler returns the redirect (local provider and model with a direct
\* response), whatever the outcome of the local-model call.
C1_S3AlwaysRedirects ==
    (/\ call.hook = "resolve_model"
     /\ ~isGuardSessionKey(call.key)
     /\ call.level = "S3")
        => (/\ call.ret.kind = "redirect"
            /\ call.ret.provider
            /\ call.ret.model
            /\ call.ret.directResponse)

\* an S3 message whose local-model call failed has been passed through
C1_Witness ==
    /\ call.hook = "resolve_model"
    /\ ~isGuardSessionKey(call.key)
    /\ call.level = "S3"
    /\ ~call.localCallOk
    /\ call.ret = NoDecision
    /\ isSessionMarkedPrivate(sessionStates, call.key)

\* C2: at resolve_model a message classified S1 yields no decision, no event,
\* no session marking and no history write; a message classified S2 yields a
\* decision with a userPromptOverride and no provider, model or direct response.
C2_S1NothingS2Override ==
    [][call'.hook = "resolve_model" =>
         /\ call'.level = "S1" =>
              /\ call'.ret = NoDecision
              /\ call'.events = <<>>
              /\ \A k \in Keys :
                   /\ sessionStates'[k].exists = sessionStates[k].exists
                   /\ sessionStates'[k].isPrivate = sessionStates[k].isPrivate
                   /\ sessionStates'[k].highestLevel = sessionStates[k].highestLevel
              /\ hFull' = hFull
              /\ hClean' = hClean
         /\ call'.level = "S2" =>
              /\ call'.ret.userPromptOverride
              /\ ~call'.ret.provider
              /\ ~call'.ret.model
              /\ ~call'.ret.directResponse]_vars

\* an S2 message whose persist call rejected has been passed through
C2_Witness ==
    /\ call.hook = "resolve_model"
    /\ call.level = "S2"
    /\ call.threw
    /\ call.ret = NoDecision
    /\ call.events = <<>>

\* C3: over the checkpoint events (no reset, no clear) the highest tier of every
\* session after an event is at least its highest tier before the event, under
\* S1 < S2 < S3.
C3_TierMonotone ==
    [][\A k \in Keys :
           order(getSessionHighestLevel(sessionStates', k))
               >= order(getSessionHighestLevel(sessionStates, k))]_vars

\* a checkpoint event classified S2 has acted on a session that already held S3
C3_Witness ==
    /\ call.hook \in {"message_received", "after_tool_call", "resolve_model"}
    /\ call.level = "S2"
    /\ ~call.threw
    /\ getSessionHighestLevel(sessionStates, call.key) = "S3"

\* C4: in every state reached by markSessionAsPrivate, recordDetection,
\* resetSessionPrivacy and clearSessionState calls with any tiers, a session is
\* private exactly when its highest tier is S2 or S3.
C4_PrivateIffSensitive ==
    \A k \in Keys :
        isSessionMarkedPrivate(sessionStates, k)
            <=> getSessionHighestLevel(sessionStates, k) \in {"S2", "S3"}

\* a session that held S2 has been marked again with S1: still private, still S2
C4_Witness ==
    /\ call.hook = "markSessionAsPrivate"
    /\ call.level = "S1"
    /\ isSessionMarkedPrivate(sessionStates, call.key)
    /\ getSessionHighestLevel(sessionStates, call.key) = "S2"

\* C5: a private session stays private across every step that is not a
\* resetSessionPrivacy or clearSessionState call, a markSessionAsPrivate with S1
\* included.
C5_PrivateSticky ==
    [][\A k \in Keys :
           (isSessionMarkedPrivate(sessionStates, k) /\ call'.hook \notin ResetOps)
               => isSessionMarkedPrivate(sessionStates', k)]_vars

\* a private session has been marked with S1 and is private afterwards
C5_Witness ==
    /\ call.hook = "markSessionAsPrivate"
    /\ call.level = "S1"
    /\ isSessionMarkedPrivate(sessionStates, call.key)

\* C6: no value of an entity extracted during the S2 desensitization is a
\* substring of the userPromptOverride, in the inline case and in the file case.
C6_NoEntityValueInOverride ==
    dz.mode \in {"inline", "file"}
        => \A i \in 1..Len(dz.entities) :
               ~includes(dz.userPromptOverride, dz.entities[i].value)

\* file case: the extracted name is gone from the file content of the override
\* and stands in its task description
C6_Witness ==
    /\ dz.mode = "file"
    /\ dz.outcome = "extracted"
    /\ \E i \in 1..Len(dz.entities) :
           /\ Len(dz.entities[i].value) >= 2
           /\ includes(dz.content, dz.entities[i].value)
           /\ ~includes(dz.desensitized, dz.entities[i].value)
           /\ includes(taskDescription(dz.message), dz.entities[i].value)
           /\ includes(dz.userPromptOverride, dz.entities[i].value)

\* C7: with the local model disabled or its extraction failed, desensitization
\* returns the rule-based redaction of the content with wasModelUsed false, and
\* so never the unchanged input when that holds an sk- key, a token or a password.
C7_FallbackIsRuleRedaction ==
    dz.outcome \in {"disabled", "failed"}
        => /\ dz.desensitized = redactSensitiveInfo(dz.content)
           /\ ~dz.wasModelUsed
           /\ (redactSensitiveInfo(dz.content) # dz.content
                   => dz.desensitized # dz.content)

\* the local model is disabled and a content with a password comes back unchanged
C7_Witness ==
    /\ dz.outcome = "disabled"
    /\ ~dz.wasModelUsed
    /\ redactSensitiveInfo(dz.content) # dz.content
    /\ dz.desensitized = dz.content

\* C8: for a message classified S3 at message_received the clean-track record
\* written for it holds the fixed placeholder, not the original text, and the
\* full-track record holds the original.
C8_S3CleanIsPlaceholder ==
    (/\ call.hook = "message_received"
     /\ call.level = "S3"
     /\ ~call.threw)
        => LET f == hFull[call.key]
               c == hClean[call.key]
           IN /\ Len(f) >= 1
              /\ Len(c) >= 1
              /\ f[Len(f)].content = call.msg
              /\ c[Len(c)].content = Placeholder
              /\ c[Len(c)].content # call.msg

\* the first message of a session, classified S3, is in the clean track as it came
C8_Witness ==
    /\ call.hook = "message_received"
    /\ call.level = "S3"
    /\ ~call.threw
    /\ Len(hClean[call.key]) = 1
    /\ hClean[call.key][1].content = call.msg
    /\ hFull[call.key][1].content = call.msg
    /\ isSessionMarkedPrivate(sessionStates, call.key)

\* the parameters hold, under a recognised path key of the object or of an
\* object nested in it, a string naming a path under a protected root
C9_ReferencesProtected(params) ==
    /\ params.present
    /\ LET hit(o) == \E k \in DOMAIN o :
                         /\ k \in {"path", "file", "filepath", "filename", "dir",
                                   "directory", "target", "source"}
                         /\ o[k].t = "str"
                         /\ \/ isPrefixOf(BaseDir \o <<"agents", "main", "sessions", "full">>,
                                          o[k].s)
                            \/ o[k].s = FullMemoryFile
                            \/ isPrefixOf(FullMemoryDir, o[k].s)
       IN \/ hit(params.o)
          \/ \E k \in DOMAIN params.o :
                 params.o[k].t = "obj" /\ hit(params.o[k].o)

\* C9: a before_tool_call from a non-guard session whose parameters hold a path
\* value under a protected root is blocked, whatever the tool name.
C9_ProtectedPathBlocked ==
    (/\ call.hook = "before_tool_call"
     /\ ~isGuardSessionKey(call.key)
     /\ C9_ReferencesProtected(call.params))
        => (call.ret.block /\ call.ret.kind = "block")

\* a non-read tool with the protected path in a nested object has been blocked
C9_Witness ==
    /\ call.hook = "before_tool_call"
    /\ call.key = <<"s2">>
    /\ call.tool = "exec"
    /\ call.params = Params(Obj1("options", ObjVal(Obj1("target", StrVal(FullMemoryFile)))))
    /\ call.ret = BlockDecision("protected path")

\* C10: after resolve_model has handled an S2 message referencing a readable file
\* the path is in the session's pre-read set; the set never loses a path; a
\* before_tool_call with read, read_file or cat on a path of the session's set is
\* blocked; and the pre-read rule blocks nothing for a session whose set lacks
\* the path.
C10_PreReadBlocksRead ==
    /\ [](/\ (call.hook = "resolve_model" /\ call.level = "S2" /\ call.fileRead)
               => \A i \in 1..Len(call.msg) :
                      matchesFilePattern(call.msg[i])
                          => call.msg[i] \in preReadFiles[call.key]
          /\ (/\ call.hook = "before_tool_call"
              /\ call.tool \in {"read", "read_file", "cat"}
              /\ readFilePath(call.params) \in preReadFiles[call.key])
               => call.ret.block
          /\ (/\ call.hook = "before_tool_call"
              /\ readFilePath(call.params) \notin preReadFiles[call.key])
               => call.ret.blockReason # "pre-read file")
    /\ [][\A k \in Keys : preReadFiles[k] \subseteq preReadFiles'[k]]_vars

\* a cat of the pre-read file by the session that pre-read it has been blocked
C10_Witness ==
    /\ call.hook = "before_tool_call"
    /\ call.tool = "cat"
    /\ call.key = <<"s1">>
    /\ readFilePath(call.params) = CsvPath
    /\ CsvPath \in preReadFiles[<<"s1">>]
    /\ CsvPath \notin preReadFiles[<<"s2">>]
    /\ call.ret = BlockDecision("pre-read file")

\* C11: a before_tool_call that neither the protected-path rule nor the pre-read
\* rule blocks, and whose detection returned, follows the detected level: S3 blocks with a reason naming S3 and
\* marks the session private; S2 allows and marks the session private; S1 allows
\* and leaves isPrivate and highestLevel as they were.
C11_ToolCallFollowsTier ==
    [][(/\ call'.hook = "before_tool_call"
        /\ call'.ret.blockReason \notin {"protected path", "pre-read file"}
        /\ call'.level # "failed")
          => /\ call'.level \in Levels
             /\ call'.level = "S3" =>
                  /\ call'.ret.block
                  /\ call'.ret.blockReason = "S3 sensitivity detected"
                  /\ isSessionMarkedPrivate(sessionStates', call'.key)
                  /\ getSessionHighestLevel(sessionStates', call'.key) = "S3"
             /\ call'.level = "S2" =>
                  /\ ~call'.ret.block
                  /\ isSessionMarkedPrivate(sessionStates', call'.key)
                  /\ getSessionHighestLevel(sessionStates', call'.key) \in {"S2", "S3"}
             /\ call'.level = "S1" =>
                  /\ ~call'.ret.block
                  /\ isSessionMarkedPrivate(sessionStates', call'.key)
                       = isSessionMarkedPrivate(sessionStates, call'.key)
                  /\ getSessionHighestLevel(sessionStates', call'.key)
                       = getSessionHighestLevel(sessionStates, call'.key)]_vars

\* a tool call classified S2 has been allowed and its session is private
C11_Witness ==
    /\ call.hook = "before_tool_call"
    /\ call.level = "S2"
    /\ call.ret = NoDecision
    /\ isSessionMarkedPrivate(sessionStates, call.key)
    /\ getSessionHighestLevel(sessionStates, call.key) = "S2"

\* C12: a resolve_model that delivers again, for the same session, the message of
\* the resolve_model before it returns no decision and leaves the full and the
\* clean track as they are.
C12_SecondDeliveryIsNoOp ==
    [][(/\ call.hook = "resolve_model"
        /\ call'.hook = "resolve_model"
        /\ call'.key = call.key
        /\ call'.msg = call.msg)
          => /\ call'.ret = NoDecision
             /\ hFull' = hFull
             /\ hClean' = hClean]_vars

\* the message has been classified S2 again and stands twice in the full track
C12_Witness ==
    /\ call.hook = "resolve_model"
    /\ call.level = "S2"
    /\ call.ret.kind = "override"
    /\ sessionStates[call.key].detectionHistory
         = <<[level |-> "S2", checkpoint |-> "onUserMessage"]>>
    /\ Len(hFull[call.key]) = 2
    /\ hFull[call.key][1].content = hFull[call.key][2].content
    /\ hFull[call.key][2].content = call.msg

\* the message begins with "[REDACTED:" or with "[SYSTEM]"
C13_BeginsWithMarker(msg) ==
    Len(msg) >= 1 /\ msg[1] \in {<<"[REDACTED:PHONE]">>, <<"[SYSTEM]">>}

\* the invocation returned at once: nothing decided, read, classified, recorded,
\* marked, written or emitted
C13_ReturnedAtOnce ==
    /\ call'.ret = NoDecision
    /\ call'.level = "none"
    /\ ~call'.fileRead
    /\ call'.events = <<>>
    /\ ~call'.threw
    /\ UNCHANGED <<sessionStates, preReadFiles, hFull, hClean>>

\* C13 as stated: a resolve_model whose message begins with "[REDACTED:" or
\* "[SYSTEM]" returns at once with no decision, for every session key.
C13_MarkerReturnsAtOnce ==
    [][(call'.hook = "resolve_model" /\ C13_BeginsWithMarker(call'.msg))
          => C13_ReturnedAtOnce]_vars

\* C13 amended: in a session that is not a guard session, a resolve_model whose
\* message begins with "[REDACTED:" or "[SYSTEM]" returns at once with no
\* decision; in a guard session the enforcement of the local model is decided
\* before the message is looked at.
C13_MarkerReturnsAtOnceNonGuard ==
    [][(/\ call'.hook = "resolve_model"
        /\ C13_BeginsWithMarker(call'.msg)
        /\ ~isGuardSessionKey(call'.key))
          => C13_ReturnedAtOnce]_vars

\* with privacy enabled, a message beginning with "[REDACTED:" has been skipped
\* in a session that an earlier event made private
C13_Witness ==
    /\ config.enabled
    /\ call.hook = "resolve_model"
    /\ call.key = <<"s1">>
    /\ call.msg[1] = <<"[REDACTED:PHONE]">>
    /\ call.ret = NoDecision
    /\ call.level = "none"
    /\ isSessionMarkedPrivate(sessionStates, <<"s1">>)

-----------------------------------------------------------------------------
(* Memory sync at session end                                              *)

C14_ExampleFull ==
    <<"#", " ", "L", "o", "g", "\n", "[", "G", "u", "a", "r", "d", " ", "A", "g", "e",
      "n", "t", "]", " ", "u", "s", "e", "r", " ", "a", "s", "k", "e", "d", " ", "a",
      "b", "o", "u", "t", " ", "p", "a", "y", "s", "l", "i", "p", "\n", "r", "e", "g",
      "u", "l", "a", "r", " ", "n", "o", "t", "e", "\n">>

C14_ExampleHeader == <<"#", " ", "L", "o", "g">>

C14_ExampleClean ==
    <<"#", " ", "L", "o", "g", "\n", "r", "e", "g", "u", "l", "a", "r", " ", "n", "o",
      "t", "e", "\n">>

\* the session_end handler has just run syncMemoryToClean on a non-empty full memory
C14_Synced == call.hook = "session_end" /\ call.synced /\ memory.full # <<>>

\* an unmarked line that closes a guard block: blank, or a '#' header
C14_Terminator(lines, k) ==
    /\ ~hasGuardMarker(lines[k])
    /\ (isBlankLine(lines[k]) \/ startsWithAt(lines[k], 1, <<"#">>))

\* line i lies in the block opened by a marked line before it
C14_InBlock(lines, i) ==
    \E j \in 1..(i - 1) :
        /\ hasGuardMarker(lines[j])
        /\ \A k \in (j + 1)..(i - 1) : ~C14_Terminator(lines, k)

C14_Kept(lines, i) ==
    /\ ~hasGuardMarker(lines[i])
    /\ C14_InBlock(lines, i) => startsWithAt(lines[i], 1, <<"#">>)

RECURSIVE C14_KeptFrom(_, _)
C14_KeptFrom(lines, i) ==
    IF i > Len(lines) THEN <<>>
    ELSE (IF C14_Kept(lines, i) THEN <<lines[i]>> ELSE <<>>)
         \o C14_KeptFrom(lines, i + 1)

\* C14 as stated: memory sync removes the guard-marked lines and keeps the
\* unmarked lines around them; the full memory "# Log", "[Guard Agent] user
\* asked about payslip", "regular note" is synced to "# Log", "regular note".
C14_SyncKeepsFollowingLine ==
    (C14_Synced /\ memory.full = C14_ExampleFull) => memory.clean = C14_ExampleClean

\* C14 amended: memory sync removes every guard-marked line together with the
\* lines after it up to the next blank line or '#' header (the blank line is
\* dropped, the header kept) and keeps all other lines in order, joined by
\* newlines; the example full memory is synced to "# Log" alone.
C14_SyncDropsGuardBlock ==
    C14_Synced =>
        /\ memory.cleanExists
        /\ memory.clean = joinLines(C14_KeptFrom(splitLines(memory.full), 1))
        /\ memory.full = C14_ExampleFull => memory.clean = C14_ExampleHeader

C14_Witness ==
    /\ C14_Synced
    /\ memory.full = C14_ExampleFull
    /\ memory.clean = C14_ExampleHeader

\* C15: the clean memory written by the sync is the Redactor applied to the
\* filtered full memory, so a password left in the filtered text is not in it.
C15_CleanIsRedactedFilter ==
    C14_Synced => memory.clean = redactSensitiveInfo(filterGuardContent(memory.full))

C15_Witness ==
    /\ C14_Synced
    /\ includes(filterGuardContent(memory.full), ContentPassword)
    /\ includes(memory.clean, ContentPassword)
    /\ ~includes(redactSensitiveInfo(filterGuardContent(memory.full)), ContentPassword)

\* C16: every session_end event that carries a session key runs the memory
\* sync, whether or not the session was marked private.
C16_SessionEndSyncs ==
    (call.hook = "session_end" /\ call.key # NoSessionKey)
        => /\ call.synced
           /\ memory = syncMemoryToClean(memory)

C16_Witness ==
    /\ call.hook = "session_end"
    /\ call.key = <<"s1">>
    /\ ~isSessionMarkedPrivate(sessionStates, <<"s1">>)
    /\ memory.full = C14_ExampleFull
    /\ ~call.synced
    /\ ~memory.cleanExists

-----------------------------------------------------------------------------
(* Dual-track writes of tool results                                       *)

\* the session of the event is marked private when the handler starts
C17_CurrentlyPrivate ==
    /\ call'.key # NoSessionKey
    /\ sessionStates[call'.key].exists
    /\ sessionStates[call'.key].isPrivate

\* C17: tool_result_persist triggers a dual-track write of the tool result
\* exactly when the session of the event is marked private; for a session that
\* is not private, or an event without session key, it writes nothing and
\* changes no state.  A triggered write that succeeds appends the tool result
\* to the full and to the clean track of that session.
C17_PersistIffPrivate ==
    [][/\ call'.hook = "tool_result_persist" =>
            /\ UNCHANGED <<sessionStates, preReadFiles, hFull, hClean, memory>>
            /\ C17_CurrentlyPrivate =>
                 /\ Len(pending') = Len(pending) + 1
                 /\ SubSeq(pending', 1, Len(pending)) = pending
                 /\ pending'[Len(pending')].key = call'.key
                 /\ pending'[Len(pending')].rec.role = "tool"
                 /\ pending'[Len(pending')].rec.content = call'.msg
            /\ ~C17_CurrentlyPrivate => pending' = pending
       /\ (call'.hook = "persistMessage" /\ ~call'.threw) =>
            /\ Len(hFull'[call'.key]) = Len(hFull[call'.key]) + 1
            /\ Len(hClean'[call'.key]) = Len(hClean[call'.key]) + 1
            /\ hFull'[call'.key][Len(hFull'[call'.key])].role = "tool"
            /\ hFull'[call'.key][Len(hFull'[call'.key])].content = call'.msg
            /\ hClean'[call'.key][Len(hClean'[call'.key])].role = "tool"]_vars

C17_Witness ==
    /\ call.hook = "tool_result_persist"
    /\ call.key = <<"s1">>
    /\ sessionStates[<<"s1">>].isPrivate
    /\ ~sessionStates[<<"s2">>].isPrivate
    /\ Len(pending) = 1
    /\ pending[1].key = <<"s1">>
    /\ pending[1].rec.content = call.msg

\* C18: within one session the records of the full track are in the order in
\* which the messages were observed (ascending timestamps), and the clean
\* track never runs ahead of the full track: its record at index i is the
\* projection of the full record at index i.  This includes the case that a
\* tool-result write is started without await and a later message of the
\* session is persisted before it settles.
C18_TracksInObservationOrder ==
    \A k \in MainKeys :
        /\ \A i, j \in 1..Len(hFull[k]) :
               i < j => hFull[k][i].timestamp < hFull[k][j].timestamp
        /\ Len(hClean[k]) <= Len(hFull[k])
        /\ \A i \in 1..Len(hClean[k]) :
               hClean[k][i].timestamp = hFull[k][i].timestamp

C18_Witness ==
    /\ call.hook = "persistMessage"
    /\ ~call.threw
    /\ Len(hFull[<<"s1">>]) = 3
    /\ hFull[<<"s1">>][1].role = "user"
    /\ hFull[<<"s1">>][2].role = "user"
    /\ hFull[<<"s1">>][3].role = "tool"
    /\ hFull[<<"s1">>][3].timestamp < hFull[<<"s1">>][2].timestamp

-----------------------------------------------------------------------------
(* Rule detector                                                           *)

\* the levels of the four sub-checks of the last detectByRules call
C19_SubLevels == {rd.keyword, rd.tool, rd.params, rd.result}

\* C19: the level returned by the rule detector is the supremum, under
\* S1 < S2 < S3, of the levels of its keyword, tool-name, tool-parameter and
\* tool-result sub-checks: it is one of them, none of them is higher, and it
\* is S1 when no sub-check fires.
C19_RuleLevelIsSupremum ==
    rd.mode = "rules" =>
        /\ rd.detection.level \in C19_SubLevels
        /\ \A l \in C19_SubLevels : order(rd.detection.level) >= order(l)
        /\ C19_SubLevels = {"S1"} => rd.detection.level = "S1"
        /\ rd.detection.levelNumeric = order(rd.detection.level)

C19_Witness ==
    /\ rd.mode = "rules"
    /\ rd.keyword = "S2"
    /\ rd.tool = "S1"
    /\ rd.params = "S3"
    /\ rd.result = "S2"
    /\ rd.detection.level = "S3"

-----------------------------------------------------------------------------
(* Observability                                                           *)

C20_Checkpoints ==
    {"message_received", "resolve_model", "before_tool_call", "after_tool_call"}

\* the highest level recorded for a session, S1 for a session without state
C20_Highest(ss, key) == IF ss[key].exists THEN ss[key].highestLevel ELSE "S1"

\* C20: whenever a checkpoint handler (message_received, resolve_model,
\* before_tool_call, after_tool_call) raises the highest level of a session,
\* it emits a privacy_activated event with that level and the session key.
C20_RaiseEmitsEvent ==
    [][(/\ call'.hook \in C20_Checkpoints
        /\ order(C20_Highest(sessionStates', call'.key))
             > order(C20_Highest(sessionStates, call'.key)))
          => \E i \in 1..Len(call'.events) :
                 /\ call'.events[i].type = "privacy_activated"
                 /\ call'.events[i].level = C20_Highest(sessionStates', call'.key)
                 /\ call'.events[i].sessionKey = call'.key]_vars

C20_Witness ==
    /\ call.hook = "after_tool_call"
    /\ call.key = <<"s1">>
    /\ call.level = "S3"
    /\ nEvents = 1
    /\ sessionStates[<<"s1">>].highestLevel = "S3"
    /\ call.events = <<>>

\* the text matches the configured regex pattern (the two patterns of CustomRules)
C21_MatchesPattern(text, pattern) ==
    CASE pattern = "AKIA[0-9A-Z]{16}" ->
            \E i \in 1..Len(text) :
                /\ startsWithAt(text, i, <<"A", "K", "I", "A">>)
                /\ i + 19 <= Len(text)
                /\ \A j \in (i + 4)..(i + 19) :
                       text[j] \in {UpperLetters[k] : k \in DOMAIN UpperLetters}
                                      \cup Digits
      [] pattern = "(?:mysql|postgres|mongodb|redis)://[^\\s]+" ->
            \E scheme \in {<<"m", "y", "s", "q", "l">>,
                           <<"p", "o", "s", "t", "g", "r", "e", "s">>,
                           <<"m", "o", "n", "g", "o", "d", "b">>,
                           <<"r", "e", "d", "i", "s">>} :
            \E i \in 1..Len(text) :
                LET head == scheme \o <<":", "/", "/">>
                IN /\ startsWithAt(text, i, head)
                   /\ i + Len(head) <= Len(text)
                   /\ text[i + Len(head)] \notin SpaceChars
      [] OTHER -> FALSE

C21_MatchesLevel(level) ==
    \E pattern \in rd.rules.patterns[level] :
        C21_MatchesPattern(rd.context.message, pattern)

\* C21: a message that matches a configured S3 regex pattern and contains no
\* configured keyword is classified S3 by the rule detector, and one that
\* matches a configured S2 pattern is classified S2 or higher, not S1.
C21_PatternsAreEvaluated ==
    (rd.mode = "rules" /\ rd.keyword = "S1") =>
        /\ C21_MatchesLevel("S3") => rd.detection.level = "S3"
        /\ C21_MatchesLevel("S2") => rd.detection.level \in {"S2", "S3"}

C21_Witness ==
    /\ rd.mode = "rules"
    /\ rd.rules = CustomRules
    /\ rd.context.message = <<"A", "K", "I", "A", "A", "B", "C", "D", "E", "F", "G", "H",
                               "I", "J", "K", "L", "M", "N", "O", "P">>
    /\ C21_MatchesLevel("S3")
    /\ rd.keyword = "S1"
    /\ rd.detection.level = "S1"

\* C22: when some path extracted from the tool parameters ends in .pem, .key,
\* .p12 or .pfx or contains id_rsa, id_dsa, id_ecdsa or id_ed25519, the
\* tool-parameter check yields S3 under every configuration, also when the S2
\* path list matches that path or another path of the call.
C22_SensitiveFileForcesS3 ==
    (/\ rd.mode = "rules"
     /\ rd.context.toolParams.present
     /\ \E path \in extractPathsFromParams(rd.context.toolParams.o) :
            hasSensitiveExtension(path))
        => rd.params = "S3"

C22_Witness ==
    /\ rd.mode = "rules"
    /\ rd.rules = CustomRules
    /\ extractPathsFromParams(rd.context.toolParams.o) = {<<"~", "/", "a", "p", "p", "/", "i", "d", "_", "r", "s", "a">>}
    /\ hasSensitiveExtension(<<"~", "/", "a", "p", "p", "/", "i", "d", "_", "r", "s", "a">>)
    /\ matchesPathPattern(<<"~", "/", "a", "p", "p", "/", "i", "d", "_", "r", "s", "a">>, rd.rules.tools.S2.paths)
    /\ rd.params = "S2"

C23_NoValidLevelObject ==
    LET response == rd.response.result
        open == indexOf(response, <<"{">>, 1)
        close == IF open = 0 THEN 0 ELSE indexOf(response, <<"}">>, open + 1)
        parsed == JSONparse(SubSeq(response, open, close))
        levelKey == <<"l", "e", "v", "e", "l">>
    IN \/ close = 0
       \/ ~parsed.ok
       \/ levelKey \notin DOMAIN parsed.o
       \/ parsed.o[levelKey].t # "str"
       \/ toUpperCase(parsed.o[levelKey].s)
              \notin {<<"S", "1">>, <<"S", "2">>, <<"S", "3">>}

\* C23: when the reply handed to the parser holds no JSON object with a valid
\* level (a brace-delimited fragment that is not valid JSON included), the
\* result comes from scanning the raw reply: S3 with confidence 0.6 if it
\* contains S3 or PRIVATE, otherwise S2 with confidence 0.6 if it contains S2 or
\* SENSITIVE, otherwise S1 with a confidence of at most 0.3.
C23_FallbackScansRawReply ==
    (/\ rd.mode = "model"
     /\ rd.localModel.enabled
     /\ ~rd.response.threw
     /\ C23_NoValidLevelObject) =>
        LET upperResponse == toUpperCase(rd.response.result)
        IN IF \/ includes(upperResponse, <<"S", "3">>)
              \/ includes(upperResponse, <<"P", "R", "I", "V", "A", "T", "E">>)
           THEN /\ rd.detection.level = "S3"
                /\ rd.detection.confidence = JsonVal("num", <<>>, 6)
           ELSE IF \/ includes(upperResponse, <<"S", "2">>)
                   \/ includes(upperResponse,
                               <<"S", "E", "N", "S", "I", "T", "I", "V", "E">>)
           THEN /\ rd.detection.level = "S2"
                /\ rd.detection.confidence = JsonVal("num", <<>>, 6)
           ELSE /\ rd.detection.level = "S1"
                /\ rd.detection.confidence.t = "num"
                /\ rd.detection.confidence.n <= 3

\* the reply {level: S3} PRIVATE, whose fragment is not valid JSON, is
\* classified S1 with confidence 0
C23_Witness ==
    /\ rd.mode = "model"
    /\ rd.localModel.enabled
    /\ ~rd.response.threw
    /\ rd.response.result = <<"{", "l", "e", "v", "e", "l", ":", " ", "S", "3", "}", " ",
                              "P", "R", "I", "V", "A", "T", "E">>
    /\ rd.detection.level = "S1"
    /\ rd.detection.confidence = JsonVal("num", <<>>, 0)

\* the scan of the raw reply is used for the replies without a brace-delimited
\* fragment and for those whose fragment parses
C23_ScanWitness ==
    /\ rd.mode = "model"
    /\ rd.localModel.enabled
    /\ ~rd.response.threw
    /\ C23_NoValidLevelObject
    /\ rd.detection.level = "S3"
    /\ rd.detection.confidence = JsonVal("num", <<>>, 6)

C24_Failing ==
    \/ ~rd.localModel.enabled
    \/ rd.localModel.provider \notin {"undefined", "ollama"}
    \/ rd.outcome \in {"rejected", "status"}

\* C24: the semantic detector never throws; when the local model is disabled,
\* the transport call fails, the endpoint answers with a non-OK status or the
\* provider is unsupported, it returns S1 with confidence 0, and the aggregated
\* tier is then the tier of the rule detector.
C24_SemanticDetectorNeverThrows ==
    rd.mode = "model" =>
        /\ ~rd.detection.threw
        /\ C24_Failing =>
            /\ rd.detection.level = "S1"
            /\ rd.detection.confidence = JsonVal("num", <<>>, 0)
            /\ rd.aggregated = rd.ruleDetection.level

\* an enabled detector whose endpoint answered with a non-OK status, beside a
\* rule detector that found S2 or S3
C24_Witness ==
    /\ rd.mode = "model"
    /\ rd.localModel.enabled
    /\ rd.localModel.provider = "ollama"
    /\ rd.outcome = "status"
    /\ rd.detection.level = "S1"
    /\ rd.ruleDetection.level # "S1"
    /\ rd.aggregated = rd.ruleDetection.level

\* the unsupported provider and the rejected transport call are reached too
C24_ProviderWitness ==
    /\ rd.mode = "model"
    /\ rd.localModel.enabled
    /\ rd.localModel.provider = "openai"
    /\ rd.outcome = "ok"
    /\ rd.detection.level = "S1"
    /\ rd.detection.confidence = JsonVal("num", <<>>, 0)

\* C25: after any sequence of recordDetection calls for a session, the
\* detection history holds at most 50 entries and equals the most recent
\* min(n, 50) of the n recorded detections, in the order they were recorded.
C25_HistoryIsRingOfFifty ==
    rd.mode = "ring" =>
        LET history == sessionStates[<<"s1">>].detectionHistory
            n == Len(rd.log)
            kept == IF n < HistoryLimit THEN n ELSE HistoryLimit
        IN /\ Len(history) <= HistoryLimit
           /\ Len(history) = kept
           /\ \A i \in 1..kept : history[i] = rd.log[n - kept + i]

\* 52 detections recorded: the history holds the last 50 of them
C25_Witness ==
    /\ rd.mode = "ring"
    /\ Len(rd.log) = HistoryLimit + 2
    /\ Len(sessionStates[<<"s1">>].detectionHistory) = HistoryLimit
    /\ sessionStates[<<"s1">>].detectionHistory[HistoryLimit].level = "S3"
    /\ sessionStates[<<"s1">>].detectionHistory[1] = rd.log[3]

\* C26: session state exists from the first checkpoint event of a key, so each
\* classification made at a checkpoint (the first event of a session and the
\* events classified S1 included) is appended to the detection history of that
\* session.
C26_EveryClassificationIsRecorded ==
    [][(/\ call'.hook \in {"message_received", "before_tool_call",
                           "after_tool_call", "resolve_model"}
        /\ call'.level \in Levels) =>
            LET history == sessionStates'[call'.key].detectionHistory
            IN /\ sessionStates'[call'.key].exists
               /\ Len(history) = Len(sessionStates[call'.key].detectionHistory) + 1
               /\ history[Len(history)].level = call'.level]_vars

\* the first event of a session, classified S2 at message_received: the state
\* is created by the marking, after the recording, and its history is empty
C26_Witness ==
    /\ nEvents = 1
    /\ call.hook = "message_received"
    /\ call.key = <<"s1">>
    /\ call.level = "S2"
    /\ ~call.threw
    /\ sessionStates[<<"s1">>].exists
    /\ sessionStates[<<"s1">>].detectionHistory = <<>>

\* an event classified S1 for a key without state leaves the key without state
C26_S1Witness ==
    /\ nEvents = 1
    /\ call.hook = "after_tool_call"
    /\ call.level = "S1"
    /\ ~sessionStates[call.key].exists

C27_IsPrefix(p, k) == Len(p) <= Len(k) /\ SubSeq(k, 1, Len(p)) = p

\* C27: resetSessionPrivacy(key) on a session that has state leaves it not
\* private, with highest level S1 and an empty history, leaves no state for the
\* guard sessions derived from the key by generateGuardSessionKey, and leaves
\* the unrelated keys as they were; on a key without state it changes nothing.
C27_ResetClearsSessionAndGuards ==
    [][call'.hook = "resetSessionPrivacy" =>
        LET key == call'.key
        IN IF sessionStates[key].exists
           THEN /\ sessionStates'[key] =
                      [exists |-> TRUE, isPrivate |-> FALSE, highestLevel |-> "S1",
                       detectionHistory |-> <<>>]
                /\ generateGuardSessionKey(key) \in Keys =>
                       ~sessionStates'[generateGuardSessionKey(key)].exists
                /\ \A k \in Keys : ~C27_IsPrefix(key, k) =>
                       sessionStates'[k] = sessionStates[k]
           ELSE sessionStates' = sessionStates]_vars

\* after the reset of "s1" the guard session "s1:guard:t1" is still private
C27_Witness ==
    /\ call.hook = "resetSessionPrivacy"
    /\ call.key = <<"s1">>
    /\ sessionStates[<<"s1">>].exists
    /\ ~sessionStates[<<"s1">>].isPrivate
    /\ sessionStates[generateGuardSessionKey(<<"s1">>)].exists
    /\ sessionStates[generateGuardSessionKey(<<"s1">>)].isPrivate

\* C28: for every content and every list of entities, the redacted output
\* contains no entity value of length 2 or more as a substring; overlapping
\* values, a value that is a prefix of another and a value that occurs inside
\* the text of a redaction token are covered.
C28_NoEntityValueInRedacted ==
    dz.outcome = "extracted" =>
        \A i \in 1..Len(dz.entities) :
            Len(dz.entities[i].value) >= 2 =>
                ~includes(dz.desensitized, dz.entities[i].value)

\* the name "ED" is replaced by [REDACTED:NAME], whose text holds "ED"
C28_Witness ==
    /\ dz.mode = "inline"
    /\ dz.outcome = "extracted"
    /\ dz.entities = <<PiiItem(<<"N", "A", "M", "E">>, <<"E", "D">>)>>
    /\ includes(dz.content, <<"E", "D">>)
    /\ dz.desensitized # dz.content
    /\ includes(dz.desensitized, <<"E", "D">>)

\* a value and its prefix, both in the content, are both removed
C28_PrefixWitness ==
    /\ dz.outcome = "extracted"
    /\ Len(dz.entities) = 2
    /\ dz.entities[1].value = <<"J", "o">>
    /\ dz.entities[2].value = <<"J", "o", "a", "n">>
    /\ includes(dz.content, <<"J", "o", "a", "n", ",", " ", "J", "o">>)
    /\ ~includes(dz.desensitized, <<"J", "o">>)

\* C29: redaction is a fixed point under a second application with the same
\* entities: redact(redact(m, E), E) = redact(m, E).
C29_RedactionIsFixedPoint ==
    dz.outcome = "extracted" =>
        desensitizeWithLocalModel(dz.desensitized, "extracted", dz.entities).desensitized
            = dz.desensitized

\* redacting "mail ED, Joan" with the names "Joan" and "ED" a second time
\* rewrites the tokens written by the first
C29_Witness ==
    /\ dz.mode = "inline"
    /\ dz.outcome = "extracted"
    /\ dz.entities = <<PiiItem(<<"n", "a", "m", "e">>, <<"J", "o", "a", "n">>),
                       PiiItem(<<"N", "A", "M", "E">>, <<"E", "D">>)>>
    /\ dz.content = <<"m", "a", "i", "l", " ", "E", "D", ",", " ", "J", "o", "a", "n">>
    /\ redactItems(dz.desensitized, sortByValueLength(dz.entities)) # dz.desensitized

\* C30: when the classification fails in a checkpoint handler (the detector
\* throws, the request is aborted before a result exists), the handler changes
\* no session state - no detection recorded, no session marked -, writes no
\* history record and emits no event.
C30_FailedClassificationChangesNothing ==
    [][call'.level = "failed" =>
        /\ call'.hook \in {"message_received", "before_tool_call",
                           "after_tool_call", "resolve_model"}
        /\ sessionStates' = sessionStates
        /\ hFull' = hFull
        /\ hClean' = hClean
        /\ preReadFiles' = preReadFiles
        /\ call'.events = <<>>
        /\ call'.ret = NoDecision]_vars

\* the classification of a message failed in a session that an earlier event
\* made private: its history still holds that one event and nothing was written
C30_Witness ==
    /\ nEvents = 2
    /\ call.hook = "message_received"
    /\ call.level = "failed"
    /\ call.threw
    /\ isSessionMarkedPrivate(sessionStates, call.key)
    /\ Len(sessionStates[call.key].detectionHistory) <= 1
    /\ hFull[call.key] = <<>>

\* the same at resolve_model, after the referenced file was read
C30_ResolveWitness ==
    /\ call.hook = "resolve_model"
    /\ call.level = "failed"
    /\ call.fileRead
    /\ call.ret = NoDecision
    /\ preReadFiles[call.key] = {}

-----------------------------------------------------------------------------
C31_PersistWitness ==
    /\ call.hook = "resolve_model"
    /\ call.level = "S2"
    /\ call.threw
    /\ handlerOutcome(call).value = NoDecision

-----------------------------------------------------------------------------
(* C32: with privacy enabled, resolve_model classifies every message of a  *)
(* session that is not a guard session unless the message begins with      *)
(* "[REDACTED:" or "[SYSTEM]": a message that only contains "[REDACTED:"   *)
(* after its beginning is classified, and an S2 or S3 result marks the     *)
(* session.                                                                *)
C32_ContainedMarkerIsClassified ==
    [][(/\ call'.hook = "resolve_model"
        /\ config.enabled
        /\ ~isGuardSessionKey(call'.key)
        /\ ~C13_BeginsWithMarker(call'.msg))
          => /\ call'.level # "none"
             /\ call'.level \in {"S2", "S3"}
                  => isSessionMarkedPrivate(sessionStates', call'.key)]_vars

\* a message with "[REDACTED:" after its first word was returned without a
\* classification
C32_Witness ==
    /\ config.enabled
    /\ call.hook = "resolve_model"
    /\ call.key = <<"s1">>
    /\ call.msg = << <<"hello">>, <<"[REDACTED:PHONE]">> >>
    /\ includesRedactedMarker(call.msg)
    /\ call.level = "none"
    /\ call.ret = NoDecision
    /\ call.events = <<>>

-----------------------------------------------------------------------------
(* C33: when message_received has classified a message S2 or S3, the       *)
(* session is private and its highest tier is at least that tier when the  *)
(* handler returns, also when the persist call made in between rejected.   *)
C33_SensitiveMessageMarksSession ==
    [][(call'.hook = "message_received" /\ call'.level \in {"S2", "S3"})
          => /\ isSessionMarkedPrivate(sessionStates', call'.key)
             /\ order(getSessionHighestLevel(sessionStates', call'.key))
                    >= order(call'.level)]_vars

\* a message classified S3 whose persist call rejected has left its session
\* without a mark
C33_Witness ==
    /\ call.hook = "message_received"
    /\ call.level = "S3"
    /\ call.threw
    /\ ~isSessionMarkedPrivate(sessionStates, call.key)
    /\ getSessionHighestLevel(sessionStates, call.key) = "S1"
    /\ hFull[call.key] = <<>>

-----------------------------------------------------------------------------
(* C34: a before_tool_call that is blocked by the protected-path rule or   *)
(* by the pre-read rule performs no classification and changes nothing:    *)
(* no detection is recorded, isPrivate and highestLevel of every session   *)
(* keep their values, and no pre-read set is modified.                     *)
C34_GuardBlockChangesNothing ==
    [][(/\ call'.hook = "before_tool_call"
        /\ call'.ret.block
        /\ call'.ret.blockReason \in {"protected path", "pre-read file"})
          => /\ call'.level = "none"
             /\ ~call'.threw
             /\ call'.events = <<>>
             /\ \A k \in Keys :
                    /\ sessionStates'[k].detectionHistory
                           = sessionStates[k].detectionHistory
                    /\ sessionStates'[k].isPrivate = sessionStates[k].isPrivate
                    /\ sessionStates'[k].highestLevel = sessionStates[k].highestLevel
                    /\ sessionStates'[k].exists = sessionStates[k].exists
             /\ UNCHANGED <<preReadFiles, hFull, hClean>>]_vars

\* a read of the file that an S2 resolve_model pre-read has been blocked: the
\* session still holds its S2 mark and its pre-read set
C34_Witness ==
    /\ call.hook = "before_tool_call"
    /\ call.ret = BlockDecision("pre-read file")
    /\ call.level = "none"
    /\ readFilePath(call.params) \in preReadFiles[call.key]
    /\ isSessionMarkedPrivate(sessionStates, call.key)
    /\ getSessionHighestLevel(sessionStates, call.key) = "S2"

\* a call naming a protected path has been blocked in a session that an
\* earlier event marked S3
C34_ProtectedWitness ==
    /\ call.hook = "before_tool_call"
    /\ call.ret = BlockDecision("protected path")
    /\ call.level = "none"
    /\ getSessionHighestLevel(sessionStates, call.key) = "S3"

-----------------------------------------------------------------------------
(* C35: a user message produces one full-track record: when                *)
(* message_received has written the message and resolve_model then         *)
(* handles the same message of the same session, the full track of the     *)
(* session does not grow again.                                            *)
C35_OneFullRecordPerMessage ==
    [][(/\ call.hook = "message_received"
        /\ ~call.threw
        /\ call'.hook = "resolve_model"
        /\ call'.key = call.key
        /\ call'.msg = call.msg)
          => /\ Len(hFull'[call.key]) = Len(hFull[call.key])
             /\ \A i, j \in 1..Len(hFull'[call.key]) :
                    (i # j) => hFull'[call.key][i].content # hFull'[call.key][j].content]_vars

\* message_received wrote the message (classified S1, so no session state was
\* made), and resolve_model, classifying it S2, has written it again
C35_Witness ==
    /\ call.hook = "resolve_model"
    /\ call.level = "S2"
    /\ ~call.threw
    /\ sessionStates[call.key].detectionHistory = <<>>
    /\ Len(hFull[call.key]) = 2
    /\ hFull[call.key][1].content = call.msg
    /\ hFull[call.key][2].content = call.msg

-----------------------------------------------------------------------------
(* C36: after every sync run by session_end the clean memory is what the   *)
(* sync derives from the current full memory: when the full memory is      *)
(* empty or missing, the clean memory holds no content of an earlier sync  *)
(* or write.                                                               *)
C36_CleanIsProjectionOfFull ==
    (call.hook = "session_end" /\ call.synced)
        => /\ memory.clean = filterGuardContent(memory.full)
           /\ memory.full = <<>> => memory.clean = <<>>

\* the session of a private key ended while the full memory was empty: the
\* clean memory still holds the note written before
C36_Witness ==
    /\ call.hook = "session_end"
    /\ call.synced
    /\ memory.full = <<>>
    /\ memory.cleanExists
    /\ memory.clean = <<"c", "l", "o", "u", "d", " ", "n", "o", "t", "e">>

-----------------------------------------------------------------------------
(* Lines of the synced clean memory                                        *)

C37_Occurrences(seq, t) == Cardinality({ j \in 1..Len(seq) : seq[j] = t })

\* line i stands between a guard-marked line and the line that closes its block
C37_InsideBlock(lines, i) ==
    C14_InBlock(lines, i) /\ ~C14_Terminator(lines, i)

\* line i is the '#' header that closes a guard block
C37_ClosingHeader(lines, i) ==
    /\ C14_InBlock(lines, i)
    /\ C14_Terminator(lines, i)
    /\ startsWithAt(lines[i], 1, <<"#">>)

\* C37: for every non-empty full memory, the text that the sync writes to the
\* clean memory has no line with a guard marker ("[guard agent]", "guard:",
\* "private context:" in any case); a line between a guard-marked line and the
\* next blank line or '#' header is absent from it (the text occurs in the clean
\* memory only as often as it stands outside the blocks); and the '#' header
\* that closes a block is kept.
C37_SyncedTextHasNoGuardBlock ==
    C14_Synced =>
        LET lines == splitLines(memory.full)
            out == splitLines(memory.clean)
            outside(t) == { j \in 1..Len(lines) : lines[j] = t /\ C14_Kept(lines, j) }
        IN /\ \A j \in 1..Len(out) : ~hasGuardMarker(out[j])
           /\ \A i \in 1..Len(lines) :
                  C37_InsideBlock(lines, i)
                      => C37_Occurrences(out, lines[i]) = Cardinality(outside(lines[i]))
           /\ \A i \in 1..Len(lines) :
                  C37_ClosingHeader(lines, i)
                      => C37_Occurrences(out, lines[i]) = Cardinality(outside(lines[i]))
                         /\ C37_Occurrences(out, lines[i]) >= 1

\* a marked line in capitals, the note after it and the header closing the block
\* have been synced: only the header is in the clean memory
C37_Witness ==
    /\ C14_Synced
    /\ LET lines == splitLines(memory.full)
       IN /\ Len(lines) = 3
          /\ hasGuardMarker(lines[1])
          /\ lines[1] # toLowerCase(lines[1])
          /\ C37_InsideBlock(lines, 2)
          /\ C37_ClosingHeader(lines, 3)
          /\ memory.clean = lines[3]

\* the same note stands before a guard block and inside it: the clean memory
\* holds it once
C37_RepeatedLineWitness ==
    /\ C14_Synced
    /\ LET lines == splitLines(memory.full)
       IN /\ Len(lines) = 3
          /\ ~hasGuardMarker(lines[1])
          /\ hasGuardMarker(lines[2])
          /\ lines[3] = lines[1]
          /\ C37_InsideBlock(lines, 3)
          /\ memory.clean = lines[1]

-----------------------------------------------------------------------------
(* Event buses                                                             *)

\* how often the last emit invoked the listener
C38_Invocations(listener) ==
    Cardinality({ j \in 1..Len(rd.calls) : rd.calls[j].listener = listener })

\* C38: an emit (emitPluginEvent, emitGuardClawEvent) returns to the emitter
\* without an exception and has invoked every listener that was subscribed when
\* it began exactly once with the emitted event, also when an earlier listener
\* threw.
C38_EmitInvokesEachListenerOnce ==
    call.hook \in {"emitPluginEvent", "emitGuardClawEvent"}
        => /\ rd.returned
           /\ ~rd.thrown
           /\ \A i \in 1..Len(rd.before) : C38_Invocations(rd.before[i]) = 1
           /\ \A j \in 1..Len(rd.calls) : rd.calls[j].event = rd.event

\* "closer" and "quiet" were subscribed in this order; the emit has invoked
\* "closer", which unsubscribed "quiet", and has returned without invoking "quiet"
C38_Witness ==
    /\ call.hook = "emitPluginEvent"
    /\ rd.before = <<"closer", "quiet">>
    /\ rd.returned
    /\ C38_Invocations("closer") = 1
    /\ C38_Invocations("quiet") = 0
    /\ rd.listeners["plugin"] = <<"closer">>

\* "rearm" alone was subscribed: the emit has invoked it MaxCalls times and
\* the loop has not ended
C38_RearmWitness ==
    /\ call.hook = "emitGuardClawEvent"
    /\ rd.before = <<"rearm">>
    /\ ~rd.returned
    /\ C38_Invocations("rearm") = MaxCalls

\* "faulty" threw before "quiet" was invoked: both were invoked once and the
\* emit returned
C38_ThrowWitness ==
    /\ call.hook = "emitPluginEvent"
    /\ rd.before = <<"faulty", "quiet">>
    /\ rd.returned
    /\ ~rd.thrown
    /\ rd.ignored = 1
    /\ C38_Invocations("faulty") = 1
    /\ C38_Invocations("quiet") = 1

\* the listener is in the entry list
C39_Subscribed(data, listener) == \E i \in 1..Len(data) : data[i] = listener

\* C39: a call of the unsubscribe function returned by onPluginEvent or
\* onGuardClawEvent leaves its listener unsubscribed and every other listener of
\* both buses subscribed, in the same order; a second call of the same function
\* changes nothing; and an emit invokes no listener all of whose unsubscribe
\* functions have been called.
C39_UnsubscribeIsFinalAndIdempotent ==
    [][/\ call'.hook = "unsubscribe"
            => LET h == rd'.handle
                   bus == rd.handles[h].bus
                   listener == rd.handles[h].listener
               IN /\ ~C39_Subscribed(rd'.listeners[bus], listener)
                  /\ rd'.listeners[bus]
                         = SelectSeq(rd.listeners[bus], LAMBDA v : v # listener)
                  /\ \A b \in {"plugin", "guardclaw"} \ {bus} :
                         rd'.listeners[b] = rd.listeners[b]
                  /\ rd.handles[h].called >= 1 => rd'.listeners = rd.listeners
       /\ call'.hook \in {"emitPluginEvent", "emitGuardClawEvent"}
            => \A h \in 1..Len(rd.handles) :
                   (/\ rd.handles[h].bus = rd'.bus
                    /\ \A g \in 1..Len(rd.handles) :
                           (/\ rd.handles[g].bus = rd.handles[h].bus
                            /\ rd.handles[g].listener = rd.handles[h].listener)
                               => rd.handles[g].called >= 1)
                       => \A j \in 1..Len(rd'.calls) :
                              rd'.calls[j].listener # rd.handles[h].listener]_vars

\* the first unsubscribe function of a listener has been called a second time
\* after the listener was subscribed again: the call removed the listener, whose
\* second unsubscribe function was never called
C39_Witness ==
    /\ call.hook = "unsubscribe"
    /\ rd.handle = 1
    /\ rd.handles[1].called = 2
    /\ Len(rd.handles) >= 2
    /\ rd.handles[2].listener = rd.handles[1].listener
    /\ rd.handles[2].bus = rd.handles[1].bus
    /\ rd.handles[2].called = 0
    /\ C39_Subscribed(rd.before, rd.handles[1].listener)
    /\ ~C39_Subscribed(rd.listeners[rd.bus], rd.handles[1].listener)

\* an emit after the first unsubscribe function of "quiet" was called twice:
\* "quiet", whose second unsubscribe function was never called, is not invoked
C39_LostSubscriptionWitness ==
    /\ call.hook = "emitGuardClawEvent"
    /\ Len(rd.handles) = 2
    /\ rd.handles[1] = [bus |-> "guardclaw", listener |-> "quiet", called |-> 2]
    /\ rd.handles[2] = [bus |-> "guardclaw", listener |-> "quiet", called |-> 0]
    /\ rd.calls = <<>>

=============================================================================
